---- MODULE Spec2Model ----
(***************************************************************************)
(* ODB++ -> PcbModel -> JSON: the parser pipeline of odb/odb_parser.py     *)
(* (OdbParser.parse and its stages) and the projector of                   *)
(* odb/odb_to_json.py (model_to_json, list_steps, main).                   *)
(*                                                                         *)
(* Conventions                                                             *)
(*  - Python lists are TLA+ sequences, so Python index i is TLA+ index     *)
(*    i+1: model.nets[0] is model.nets[1] here.                            *)
(*  - Optional values (None or a value) are sequences of length 0 or 1.    *)
(*  - A text file is None (absent or unreadable) or a sequence of lines;   *)
(*    a line is a record whose field k is the record keyword that the      *)
(*    regular expression of the code matches, the other fields being the   *)
(*    captured groups.  A line that matches no pattern has k = "junk".     *)
(*  - A float is a fixed-point integer, FixedPoint units to the millimetre.*)
(***************************************************************************)
EXTENDS Integers, Sequences, FiniteSets, TLC

VARIABLES
    pc,             \* position in the running entry point
    fs,             \* the input as it lies on disk (archive or directory)
    args,           \* the command line of main(): [step, list_steps]
    disk,           \* the paths that exist on disk, of "input" and "scratch"
    temp_dir,       \* OdbParser._temp_dir / temp_dir of list_steps (Optional)
    root,           \* OdbParser.root (Optional path into fs.tree)
    step_name,      \* OdbParser.step_name (Optional)
    units,          \* OdbParser.units
    model,          \* OdbParser.model : PcbModel
    layer_net_map,  \* OdbParser._layer_net_map
    symbol_defs,    \* OdbParser._symbol_defs
    pending,        \* exception in flight (Optional)
    listing,        \* value returned by list_steps (Optional)
    result,         \* the dictionary written to stdout (Optional)
    counter,        \* utils._counter, the process-wide identifier counter
    issued          \* the calls that touched the counter or returned an identifier

vars == <<pc, fs, args, disk, temp_dir, root, step_name, units, model,
          layer_net_map, symbol_defs, pending, listing, result, counter, issued>>

None == <<>>
Some(x) == <<x>>
IsSome(o) == Len(o) = 1
Val(o) == o[1]

RECURSIVE Flatten(_)
Flatten(ss) == IF Len(ss) = 0 THEN <<>> ELSE Head(ss) \o Flatten(Tail(ss))

RECURSIVE SeqsUpTo(_, _)
SeqsUpTo(S, n) ==
    IF n = 0 THEN {<<>>}
    ELSE LET shorter == SeqsUpTo(S, n - 1)
         IN shorter \cup {Append(s, x) : s \in {t \in shorter : Len(t) = n - 1}, x \in S}

(***************************************************************************)
(* Bounds of the explored inputs.                                          *)
(***************************************************************************)
MaxLayers == 4

(***************************************************************************)
(* pcb_model.py                                                            *)
(***************************************************************************)
CopperTypes == {"SIGNAL", "POWER", "MIXED"}

LayerDef ==
    [odb_name |-> "", kicad_name |-> "", layer_type |-> "SIGNAL", side |-> "TOP",
     layer_id |-> 0, polarity |-> "positive", copper_order |-> -1]

NetDef(index, name) == [index |-> index, name |-> name]

PcbModel ==
    [job_name |-> "", units |-> "MM", board_thickness |-> 16000,
     layers |-> <<>>, stackup |-> <<>>,
     nets |-> <<>>, outline |-> <<>>, components |-> <<>>, traces |-> <<>>,
     arcs |-> <<>>, vias |-> <<>>, zones |-> <<>>, graphics |-> <<>>]

(***************************************************************************)
(* matrix/matrix                                                           *)
(***************************************************************************)
\* str.upper() on the TYPE values that occur in the explored files
Upper(s) ==
    CASE s = "signal" -> "SIGNAL"
      [] s = "drill" -> "DRILL"
      [] s = "inch" -> "INCH"
      [] s = "mil" -> "MIL"
      [] OTHER -> s

\* str.lower() on the layer names that occur in the explored files
Lower(s) ==
    CASE s = "TOP" -> "top"
      [] s = "SM_TOP" -> "sm_top"
      [] s = "POSITIVE" -> "positive"
      [] s = "NEGATIVE" -> "negative"
      [] OTHER -> s

\* the substrings (of those the code tests for) that a lower-case name contains;
\* "_t$" and "_b$" stand for str.endswith("_t") and str.endswith("_b")
SubstringsOf(name) ==
    CASE name = "top" -> {"top"}
      [] name = "sm_top" -> {"top"}
      [] name = "sm_front" -> {"front"}
      [] name = "asm_front" -> {"front"}
      [] name = "sm_bot" -> {"bot"}
      [] name = "bottom" -> {"bot"}
      [] name = "comp_+_top" -> {"comp", "top"}
      [] name = "comp_+_bot" -> {"comp", "bot"}
      [] name = "sold_asm" -> {"sold"}
      [] name = "comp_t" -> {"comp", "_t$"}
      [] name = "comp_b" -> {"comp", "_b$"}
      [] OTHER -> {}

Contains(name, sub) == sub \in SubstringsOf(name)

classify_layer_type(type_str) ==
    LET t == Upper(type_str)
    IN CASE t = "SIGNAL" -> "SIGNAL"
         [] t = "POWER_GROUND" -> "POWER"
         [] t = "POWER" -> "POWER"
         [] t = "MIXED" -> "MIXED"
         [] t = "SOLDER_MASK" -> "SOLDER_MASK"
         [] t = "SILK_SCREEN" -> "SILK_SCREEN"
         [] t = "SOLDER_PASTE" -> "SOLDER_PASTE"
         [] t = "DRILL" -> "DRILL"
         [] t = "DOCUMENT" -> "DOCUMENT"
         [] t = "COMPONENT" -> "COMPONENT"
         [] t = "ROUT" -> "DRILL"
         [] OTHER -> "OTHER"

\* one KEY=VALUE line applied to the layer being read
MatrixKeyValue(cur, key, val) ==
    CASE key = "NAME" -> [cur EXCEPT !.odb_name = val]
      [] key = "TYPE" -> [cur EXCEPT !.layer_type = classify_layer_type(val)]
      [] key = "POLARITY" -> [cur EXCEPT !.polarity = Lower(val)]
      [] key \in {"START_NAME", "END_NAME"} -> cur
      [] OTHER -> cur

\* the line loop of _parse_matrix: cur is current_layer (Optional)
RECURSIVE MatrixScan(_, _, _, _)
MatrixScan(lines, i, layers, cur) ==
    IF i > Len(lines) THEN layers
    ELSE LET ln == lines[i]
         IN CASE ln.k = "STEP" -> MatrixScan(lines, i + 1, layers, cur)
              [] ln.k = "LAYER" -> MatrixScan(lines, i + 1, layers, Some(LayerDef))
              [] ln.k = "}" ->
                    IF IsSome(cur) /\ Val(cur).odb_name # ""
                    THEN MatrixScan(lines, i + 1, Append(layers, Val(cur)), None)
                    ELSE MatrixScan(lines, i + 1, layers, cur)
              [] ln.k = "{" -> MatrixScan(lines, i + 1, layers, cur)
              [] ln.k = "KV" ->
                    IF IsSome(cur)
                    THEN MatrixScan(lines, i + 1, layers,
                                    Some(MatrixKeyValue(Val(cur), ln.key, ln.val)))
                    ELSE MatrixScan(lines, i + 1, layers, cur)
              [] OTHER -> MatrixScan(lines, i + 1, layers, cur)

IsCopper(layer) == layer.layer_type \in CopperTypes

\* the copper_order loop with the counter advanced on every layer
RECURSIVE AssignCopperOrderAll(_, _, _)
AssignCopperOrderAll(layers, i, copper_order) ==
    IF i > Len(layers) THEN layers
    ELSE AssignCopperOrderAll(
             IF IsCopper(layers[i])
             THEN [layers EXCEPT ![i].copper_order = copper_order] ELSE layers,
             i + 1, copper_order + 1)

\* the copper_order loop of _parse_matrix
RECURSIVE AssignCopperOrder(_, _, _)
AssignCopperOrder(layers, i, copper_order) ==
    IF i > Len(layers) THEN layers
    ELSE IF IsCopper(layers[i])
         THEN AssignCopperOrder([layers EXCEPT ![i].copper_order = copper_order],
                                i + 1, copper_order + 1)
         ELSE AssignCopperOrder(layers, i + 1, copper_order)

\* positions (in layers) of the copper layers, in declaration order
CopperPositions(layers) ==
    SelectSeq([j \in 1..Len(layers) |-> j], LAMBDA j : IsCopper(layers[j]))

\* enumerate(copper_layers) index of the copper layer at position j
CopperIndex(layers, j) == Cardinality({k \in 1..(j - 1) : IsCopper(layers[k])})

\* the naming loop with inner layer ids counted 3, 4, 5 instead of 4, 6, 8
CopperNamingDense(cl, i, n_copper) ==
    IF i = 0
    THEN [cl EXCEPT !.kicad_name = "F.Cu", !.layer_id = 0, !.side = "TOP"]
    ELSE IF i = n_copper - 1
         THEN [cl EXCEPT !.kicad_name = "B.Cu", !.layer_id = 2, !.side = "BOTTOM"]
         ELSE [cl EXCEPT !.kicad_name = "In" \o ToString(i) \o ".Cu",
                         !.layer_id = 2 + i, !.side = "BOTH"]

\* body of the loop "for i, cl in enumerate(copper_layers)"
CopperNaming(cl, i, n_copper) ==
    IF i = 0
    THEN [cl EXCEPT !.kicad_name = "F.Cu", !.layer_id = 0, !.side = "TOP"]
    ELSE IF i = n_copper - 1
         THEN [cl EXCEPT !.kicad_name = "B.Cu", !.layer_id = 2, !.side = "BOTTOM"]
         ELSE [cl EXCEPT !.kicad_name = "In" \o ToString(i) \o ".Cu",
                         !.layer_id = 2 + 2 * i, !.side = "BOTH"]

TopByName(name_lower) ==
    Contains(name_lower, "top") \/ Contains(name_lower, "front")
        \/ Contains(name_lower, "comp")

\* body of the loop "Map non-copper layers"
NonCopperNaming(layer) ==
    LET lt == layer.layer_type
        name_lower == Lower(layer.odb_name)
        sided(f, b) == IF TopByName(name_lower)
                       THEN [layer EXCEPT !.kicad_name = f, !.side = "TOP"]
                       ELSE [layer EXCEPT !.kicad_name = b, !.side = "BOTTOM"]
    IN CASE lt = "SOLDER_MASK" -> sided("F.Mask", "B.Mask")
         [] lt = "SILK_SCREEN" -> sided("F.SilkS", "B.SilkS")
         [] lt = "SOLDER_PASTE" -> sided("F.Paste", "B.Paste")
         [] lt = "DRILL" -> [layer EXCEPT !.kicad_name = "drill"]
         [] lt = "COMPONENT" ->
               IF Contains(name_lower, "top") \/ Contains(name_lower, "comp")
               THEN [layer EXCEPT !.kicad_name = "F.Fab", !.side = "TOP"]
               ELSE [layer EXCEPT !.kicad_name = "B.Fab", !.side = "BOTTOM"]
         [] OTHER -> [layer EXCEPT !.kicad_name = "User." \o layer.odb_name]

\* a line of matrix/matrix
MatrixLine(k, key, val) == [k |-> k, key |-> key, val |-> val]

\* _parse_matrix after the file was read: the value of model.layers
ParseMatrix(lines) ==
    LET scanned == MatrixScan(lines, 1, <<>>, None)
        ordered == AssignCopperOrder(scanned, 1, 0)
        n_copper == Len(CopperPositions(ordered))
    IN [j \in 1..Len(ordered) |->
           IF IsCopper(ordered[j])
           THEN CopperNaming(ordered[j], CopperIndex(ordered, j), n_copper)
           ELSE NonCopperNaming(ordered[j])]

(***************************************************************************)
(* Archive gateway: the input on disk                                      *)
(*                                                                         *)
(* fs.kind      "dir", or the suffix of the input file                     *)
(* fs.readable  whether tarfile / zipfile can extract the input            *)
(* fs.case_sensitive  whether the file system tells MATRIX from matrix     *)
(* fs.tree      the directories searched for matrix/matrix: every node     *)
(*              has is_dir and m, where m says how matrix/matrix exists    *)
(*              under it: "none", "exact" (in lower case) or "other_case"  *)
(* The job files below are those found under the discovered root.          *)
(***************************************************************************)
\* Path.exists() of <node>/matrix/matrix
Exists(m, case_sensitive) == m = "exact" \/ (m = "other_case" /\ ~case_sensitive)

\* _find_ci(node, "matrix") followed by _find_ci(matrix_dir, "matrix")
FindCiMatrix(m) == m \in {"exact", "other_case"}

\* the index at which a loop over a list stops at its first hit, 0 when it
\* runs to the end: hits[i] says whether the i-th entry is a hit
FirstIndex(hits) ==
    IF \E i \in 1..Len(hits) : hits[i]
    THEN CHOOSE i \in 1..Len(hits) : hits[i] /\ \A j \in 1..(i - 1) : ~hits[j]
    ELSE 0

\* _find_root: the path (child indices) of the new root, None when it raises
FindRoot(tree, case_sensitive) ==
    LET hit(node) == node.is_dir
                        /\ (Exists(node.m, case_sensitive) \/ FindCiMatrix(node.m))
        deep(node) == node.is_dir /\ Exists(node.m, case_sensitive)
        i1 == FirstIndex([q \in 1..Len(tree.children) |-> hit(tree.children[q])])
        below(child) == FirstIndex([q \in 1..Len(child.children) |->
                                       deep(child.children[q])])
        holds(child) == child.is_dir /\ below(child) # 0
        i2 == FirstIndex([q \in 1..Len(tree.children) |-> holds(tree.children[q])])
    IN IF hit(tree) THEN Some(<<>>)
       ELSE IF i1 # 0 THEN Some(<<i1>>)
       ELSE IF i2 # 0 THEN Some(<<i2, below(tree.children[i2])>>)
       ELSE None

\* position of a step directory name in the order of sorted()
StepRank(name) ==
    CASE name = "array" -> 1
      [] name = "panel" -> 2
      [] name = "pcb" -> 3
      [] OTHER -> 4

\* sorted(steps_dir.iterdir())
RECURSIVE Sorted(_)
Sorted(entries) ==
    IF Len(entries) = 0 THEN <<>>
    ELSE LET least == CHOOSE i \in 1..Len(entries) :
                         \A j \in 1..Len(entries) :
                             StepRank(entries[i].name) < StepRank(entries[j].name)
                                 \/ (StepRank(entries[i].name) = StepRank(entries[j].name)
                                        /\ i <= j)
             rest == [k \in 1..(Len(entries) - 1) |->
                         IF k < least THEN entries[k] ELSE entries[k + 1]]
         IN <<entries[least]>> \o Sorted(rest)

\* _find_step: the new step_name, None when it raises
FindStep(steps) ==
    IF ~IsSome(steps) THEN None
    ELSE LET sorted == Sorted(Val(steps))
             i == FirstIndex([q \in 1..Len(sorted) |-> sorted[q].is_dir])
         IN IF i = 0 THEN None ELSE Some(sorted[i].name)

\* list_steps: the sorted names of the step directories
ListStepNames(steps) ==
    LET sorted == Sorted(Val(steps))
        dirs == SelectSeq(sorted, LAMBDA e : e.is_dir)
    IN [i \in 1..Len(dirs) |-> dirs[i].name]

(***************************************************************************)
(* utils.py: numbers                                                       *)
(***************************************************************************)
FixedPoint == 10000

\* parse_float on a numeric token (the explored tokens are whole numbers)
parse_float(tok) == tok * FixedPoint

\* convert_to_mm: inch * 25.4, mil * 0.0254, anything else unchanged
convert_to_mm(value, u) ==
    IF Upper(u) \in {"INCH", "IN"} THEN (value * 254) \div 10
    ELSE IF Upper(u) \in {"MIL", "MILS", "TH"} THEN (value * 254) \div 10000
    ELSE value

negate_y(y) == 0 - y

Point(x, y) == [x |-> x, y |-> y]

\* arc_center_to_mid: the midpoint is kept as the term it is computed from
arc_center_to_mid(sx, sy, ex, ey, cx, cy, clockwise) ==
    [mid_of |-> <<sx, sy, ex, ey, cx, cy>>, clockwise |-> clockwise]

\* a dict as a function: d[k] = v, and d.get(k, default)
DictSet(d, k, v) == [x \in (DOMAIN d) \cup {k} |-> IF x = k THEN v ELSE d[x]]
DictGet(d, k, default) == IF k \in DOMAIN d THEN d[k] ELSE default

(***************************************************************************)
(* utils.py: the identifier generator                                      *)
(***************************************************************************)
\* str(uuid.uuid5(_NAMESPACE, name)): one identifier for each name
uuid5(name) == "uuid5:" \o name

\* a nameless call that leaves the counter as it is
make_uuid_stuck(name, c) ==
    IF name = "" THEN [counter |-> c, id |-> uuid5("odb2kicad-" \o ToString(c))]
    ELSE [counter |-> c, id |-> uuid5(name)]

\* make_uuid(name) with _counter = c: the new _counter and the value returned
make_uuid(name, c) ==
    IF name = "" THEN [counter |-> c + 1, id |-> uuid5("odb2kicad-" \o ToString(c + 1))]
    ELSE [counter |-> c, id |-> uuid5(name)]

\* reset_uuid_counter(): the new _counter
reset_uuid_counter == 0

(***************************************************************************)
(* misc/info                                                               *)
(***************************************************************************)
InfoLine(k, val) == [k |-> k, val |-> val]

\* _parse_misc_info: the units after the file was read (val is parts[1])
RECURSIVE ParseMiscInfo(_, _, _)
ParseMiscInfo(lines, i, u) ==
    IF i > Len(lines) THEN u
    ELSE IF lines[i].k = "UNITS" THEN ParseMiscInfo(lines, i + 1, Upper(lines[i].val))
    ELSE ParseMiscInfo(lines, i + 1, u)

(***************************************************************************)
(* steps/<step>/profile                                                    *)
(***************************************************************************)
EdgeWidth == 500
CloseTolerance == 10

\* an outline item drawn on a copper layer
GraphicItemOnCopper(item_type, start, end, mid) ==
    [item_type |-> item_type, layer |-> "F.Cu", start |-> start, end |-> end,
     mid |-> mid, width |-> EdgeWidth, fill |-> FALSE]

GraphicItem(item_type, start, end, mid) ==
    [item_type |-> item_type, layer |-> "Edge.Cuts", start |-> start, end |-> end,
     mid |-> mid, width |-> EdgeWidth, fill |-> FALSE]

Abs(v) == IF v < 0 THEN 0 - v ELSE v

\* a line of the profile or of a surface: OB/OS x y, OC x y cx cy cw, OE, S P, SE
ContourLine(k, x, y, cx, cy, cw) ==
    [k |-> k, x |-> x, y |-> y, cx |-> cx, cy |-> cy, cw |-> cw]

\* the closing line is drawn although the contour has returned to its start
NeedsClosingAlways(pts) == Len(pts) >= 2

\* at OE: at least two points, and the last more than 0.001 mm from the first
\* on either axis
NeedsClosing(pts) ==
    /\ Len(pts) >= 2
    /\ \/ Abs(pts[1].x - pts[Len(pts)].x) > CloseTolerance
       \/ Abs(pts[1].y - pts[Len(pts)].y) > CloseTolerance

\* the line loop of _parse_profile: the final outline_items
RECURSIVE ProfileScan(_, _, _, _, _, _)
ProfileScan(lines, i, u, items, in_surface, pts) ==
    IF i > Len(lines) THEN items
    ELSE LET ln == lines[i]
             ex == convert_to_mm(parse_float(ln.x), u)
             ey == convert_to_mm(parse_float(ln.y), u)
             cx == convert_to_mm(parse_float(ln.cx), u)
             cy == convert_to_mm(parse_float(ln.cy), u)
             last == pts[Len(pts)]
         IN CASE ln.k = "OB" ->
                    ProfileScan(lines, i + 1, u, items, in_surface,
                                <<Point(ex, negate_y(ey))>>)
              [] ln.k = "OS" ->
                    ProfileScan(lines, i + 1, u,
                        IF Len(pts) > 0
                        THEN Append(items, GraphicItem("line", last,
                                                       Point(ex, negate_y(ey)), None))
                        ELSE items,
                        in_surface, Append(pts, Point(ex, negate_y(ey))))
              [] ln.k = "OC" ->
                    ProfileScan(lines, i + 1, u,
                        IF Len(pts) > 0
                        THEN Append(items, GraphicItem("arc", last,
                                 Point(ex, negate_y(ey)),
                                 Some(arc_center_to_mid(last.x, last.y, ex, negate_y(ey),
                                                        cx, negate_y(cy), ln.cw = "Y"))))
                        ELSE items,
                        in_surface, Append(pts, Point(ex, negate_y(ey))))
              [] ln.k = "OE" ->
                    ProfileScan(lines, i + 1, u,
                        IF NeedsClosing(pts)
                        THEN Append(items, GraphicItem("line", last, pts[1], None))
                        ELSE items,
                        in_surface, <<>>)
              [] ln.k = "S P" -> ProfileScan(lines, i + 1, u, items, TRUE, pts)
              [] ln.k = "SE" /\ in_surface ->
                    ProfileScan(lines, i + 1, u, items, FALSE, pts)
              [] OTHER -> ProfileScan(lines, i + 1, u, items, in_surface, pts)

\* _parse_profile: the new model.outline (content is None or the file's lines)
ParseProfile(content, u, outline) ==
    IF ~IsSome(content) \/ Len(Val(content)) = 0 THEN outline
    ELSE ProfileScan(Val(content), 1, u, <<>>, FALSE, <<>>)

(***************************************************************************)
(* steps/<step>/eda/data                                                   *)
(***************************************************************************)
\* a line of eda/data: NET name, SNT, FID L layer fid, PKG name, PIN, $, junk;
\* the line "NET" without a name is [k |-> "NET", name |-> ""]
EdaLine(k, name, layer, fid) == [k |-> k, name |-> name, layer |-> layer, fid |-> fid]

\* the line loop of _parse_eda_data: current_net is <<current_net, current_net_index>>
RECURSIVE EdaScan(_, _, _, _, _, _)
EdaScan(lines, i, net_list, lfn, current_net, net_idx) ==
    IF i > Len(lines) THEN [nets |-> net_list, layer_net_map |-> lfn]
    ELSE LET ln == lines[i]
         IN CASE ln.k = "NET" /\ ln.name # "" ->
                    EdaScan(lines, i + 1, Append(net_list, NetDef(net_idx, ln.name)),
                            lfn, <<ln.name, net_idx>>, net_idx + 1)
              [] ln.k = "FID" /\ current_net[1] # "" ->
                    EdaScan(lines, i + 1, net_list,
                            DictSet(lfn, ln.layer,
                                    DictSet(DictGet(lfn, ln.layer, <<>>), ln.fid,
                                            current_net[2])),
                            current_net, net_idx)
              [] OTHER -> EdaScan(lines, i + 1, net_list, lfn, current_net, net_idx)

\* _parse_eda_data: [nets, layer_net_map] after the stage
ParseEdaData(content, nets, lnm) ==
    IF ~IsSome(content) \/ Len(Val(content)) = 0
    THEN [nets |-> nets, layer_net_map |-> lnm]
    ELSE LET r == EdaScan(Val(content), 1, <<>>, <<>>, <<"", 0>>, 1)
         IN [nets |-> <<NetDef(0, "")>> \o r.nets, layer_net_map |-> r.layer_net_map]

\* the tail of parse without the insertion of net 0
EnsureNetZeroSkipped(nets) ==
    [i \in 1..Len(nets) |-> [nets[i] EXCEPT !.index = i - 1]]

\* the tail of parse: "Ensure net 0 (unconnected) exists" and "Re-index nets"
EnsureNetZero(nets) ==
    LET with0 == IF Len(nets) = 0 \/ nets[1].name # ""
                 THEN <<NetDef(0, "")>> \o nets ELSE nets
    IN [i \in 1..Len(with0) |-> [with0[i] EXCEPT !.index = i - 1]]

(***************************************************************************)
(* symbols                                                                 *)
(***************************************************************************)
PadDef(shape, width, height) ==
    [shape |-> shape, width |-> width, height |-> height, roundrect_ratio |-> 0,
     custom_outline |-> <<>>, drill |-> 0]

\* the first pattern of _symbol_name_to_pad that matches the name and the
\* numbers it captures, for the symbol names that occur in the explored files
SymbolMatch(name) ==
    CASE name = "r10" -> [pat |-> "r", d1 |-> 10, d2 |-> 10]
      [] name = "r12" -> [pat |-> "r", d1 |-> 12, d2 |-> 12]
      [] name = "r0" -> [pat |-> "r", d1 |-> 0, d2 |-> 0]
      [] name = "s80" -> [pat |-> "s", d1 |-> 80, d2 |-> 80]
      [] name = "rect100x50" -> [pat |-> "rect", d1 |-> 100, d2 |-> 50]
      [] name = "oval60x40" -> [pat |-> "oval", d1 |-> 60, d2 |-> 40]
      [] OTHER -> [pat |-> "none", d1 |-> 0, d2 |-> 0]

CustomSize == 10000

symbol_name_to_pad(name) ==
    LET m == SymbolMatch(name)
        w == convert_to_mm(parse_float(m.d1), "MIL")
        h == convert_to_mm(parse_float(m.d2), "MIL")
    IN CASE m.pat = "r" -> PadDef("CIRCLE", w, w)
         [] m.pat = "s" -> PadDef("RECT", w, w)
         [] m.pat = "rect" -> PadDef("RECT", w, h)
         [] m.pat = "oval" -> PadDef("OVAL", w, h)
         [] OTHER -> PadDef("CUSTOM", CustomSize, CustomSize)

\* _parse_symbols with _parse_symbol_dir: the new _symbol_defs.  The explored
\* symbol directories hold an empty features file, which yields no geometry.
RECURSIVE ParseSymbols(_, _, _)
ParseSymbols(entries, i, defs) ==
    IF i > Len(entries) THEN defs
    ELSE IF entries[i].is_dir
         THEN ParseSymbols(entries, i + 1,
                           DictSet(defs, entries[i].name,
                                   symbol_name_to_pad(entries[i].name)))
         ELSE ParseSymbols(entries, i + 1, defs)

\* self._symbol_defs.get(sym_name) or self._symbol_name_to_pad(sym_name)
SymbolPad(defs, sym_name) ==
    IF sym_name \in DOMAIN defs THEN defs[sym_name] ELSE symbol_name_to_pad(sym_name)

\* "for nd in self.model.nets: if nd.index == idx: net_name = nd.name; break"
NetNameOf(nets, idx) ==
    LET i == FirstIndex([q \in 1..Len(nets) |-> nets[q].index = idx])
    IN IF i = 0 THEN "" ELSE nets[i].name

Max(a, b) == IF a >= b THEN a ELSE b

(***************************************************************************)
(* steps/<step>/layers/<layer>/features of a copper layer                  *)
(***************************************************************************)
DefaultTraceWidth == 2500
MinTraceWidth == 100

\* a line of a features file: $sym name, L xs ys xe ye sym, P xs ys sym,
\* A xs ys xe ye xc yc sym cw, S P, SE, OB/OS/OC xs ys, junk
FeatureLine(k, xs, ys, xe, ye, xc, yc, sym, cw, name) ==
    [k |-> k, xs |-> xs, ys |-> ys, xe |-> xe, ye |-> ye, xc |-> xc, yc |-> yc,
     sym |-> sym, cw |-> cw, name |-> name]

\* width of the symbol a feature names, by the layer's symbol table
FeatureWidth(sym_table, defs, sym_idx) ==
    LET sym_name == DictGet(sym_table, sym_idx, "")
    IN IF sym_name = "" THEN DefaultTraceWidth ELSE SymbolPad(defs, sym_name).width

\* the state of the line loop of _parse_single_layer before the first line
FeatureStart(m) ==
    [sym_table |-> <<>>, feature_id |-> 0, in_surface |-> FALSE,
     surface_points |-> <<>>, surface_net_idx |-> 0,
     traces |-> m.traces, arcs |-> m.arcs, zones |-> m.zones]

\* the FID map read with ordinals that start at 1
FeatureNetFromOne(net_map, feature_id) == DictGet(net_map, feature_id + 1, 0)

\* "net_idx = net_map.get(feature_id, 0)"
FeatureNet(net_map, feature_id) == DictGet(net_map, feature_id, 0)

\* an S P record that keeps the points gathered so far
OpenSurfaceKeeping(st, net_idx) ==
    [st EXCEPT !.in_surface = TRUE, !.surface_net_idx = net_idx, !.feature_id = @ + 1]

\* the S P record: "in_surface = True; surface_points = []; surface_net_idx =
\* net_map.get(feature_id, 0); feature_id += 1"
OpenSurface(st, net_idx) ==
    [st EXCEPT !.in_surface = TRUE, !.surface_points = <<>>,
               !.surface_net_idx = net_idx, !.feature_id = @ + 1]

\* one line of the loop of _parse_single_layer
FeatureStep(st, ln, u, kicad_layer, net_map, nets, defs) ==
    LET pt(x, y) == Point(convert_to_mm(parse_float(x), u),
                          negate_y(convert_to_mm(parse_float(y), u)))
        net_idx == FeatureNet(net_map, st.feature_id)
        width == Max(FeatureWidth(st.sym_table, defs, ln.sym), MinTraceWidth)
    IN CASE ln.k = "$" -> [st EXCEPT !.sym_table = DictSet(@, ln.sym, ln.name)]
         [] ln.k = "L" ->
               [st EXCEPT !.traces = Append(@, [start |-> pt(ln.xs, ln.ys),
                                                end |-> pt(ln.xe, ln.ye),
                                                width |-> width,
                                                layer |-> kicad_layer,
                                                net_index |-> net_idx]),
                          !.feature_id = @ + 1]
         [] ln.k = "P" -> [st EXCEPT !.feature_id = @ + 1]
         [] ln.k = "A" ->
               [st EXCEPT !.arcs = Append(@, [start |-> pt(ln.xs, ln.ys),
                                              mid |-> arc_center_to_mid(
                                                  pt(ln.xs, ln.ys).x, pt(ln.xs, ln.ys).y,
                                                  pt(ln.xe, ln.ye).x, pt(ln.xe, ln.ye).y,
                                                  pt(ln.xc, ln.yc).x, pt(ln.xc, ln.yc).y,
                                                  Upper(ln.cw) \in {"Y", "CW"}),
                                              end |-> pt(ln.xe, ln.ye),
                                              width |-> width,
                                              layer |-> kicad_layer,
                                              net_index |-> net_idx]),
                          !.feature_id = @ + 1]
         [] ln.k = "S P" -> OpenSurface(st, net_idx)
         [] ln.k = "SE" /\ st.in_surface ->
               [st EXCEPT !.in_surface = FALSE,
                          !.zones = IF Len(st.surface_points) > 0
                                    THEN Append(@, [net_index |-> st.surface_net_idx,
                                                    net_name |-> NetNameOf(nets,
                                                                    st.surface_net_idx),
                                                    layer |-> kicad_layer,
                                                    polygons |-> <<[outline |->
                                                                       st.surface_points,
                                                                    holes |-> <<>>]>>])
                                    ELSE @]
         [] ln.k \in {"OB", "OS", "OC"} /\ st.in_surface ->
               [st EXCEPT !.surface_points = Append(@, pt(ln.xs, ln.ys))]
         [] OTHER -> st

RECURSIVE FeatureScan(_, _, _, _, _, _, _, _)
FeatureScan(lines, i, st, u, kicad_layer, net_map, nets, defs) ==
    IF i > Len(lines) THEN st
    ELSE FeatureScan(lines, i + 1,
                     FeatureStep(st, lines[i], u, kicad_layer, net_map, nets, defs),
                     u, kicad_layer, net_map, nets, defs)

\* _find_ci(layers_dir, name): the entry of that name, compared in lower case
FindCi(entries, name) ==
    LET i == FirstIndex([q \in 1..Len(entries) |-> Lower(entries[q].name) = Lower(name)])
    IN IF i = 0 THEN None ELSE Some(entries[i])

\* _parse_single_layer: the model after the features of layer_def were read
ParseSingleLayer(m, layer_def, layers_dir, u, lnm, defs) ==
    LET layer_dir == IF IsSome(layers_dir) THEN FindCi(Val(layers_dir), layer_def.odb_name)
                     ELSE None
        content == IF IsSome(layer_dir) THEN Val(layer_dir).features ELSE None
        st == FeatureScan(Val(content), 1, FeatureStart(m), u, layer_def.kicad_name,
                          DictGet(lnm, layer_def.odb_name, <<>>), m.nets, defs)
    IN IF ~IsSome(content) THEN m
       ELSE [m EXCEPT !.traces = st.traces, !.arcs = st.arcs, !.zones = st.zones]

\* _parse_layer_features: "for cl in self._copper_layers"
RECURSIVE ParseLayerFeatures(_, _, _, _, _, _)
ParseLayerFeatures(m, j, layers_dir, u, lnm, defs) ==
    IF j > Len(m.layers) THEN m
    ELSE ParseLayerFeatures(
             IF IsCopper(m.layers[j])
             THEN ParseSingleLayer(m, m.layers[j], layers_dir, u, lnm, defs) ELSE m,
             j + 1, layers_dir, u, lnm, defs)

(***************************************************************************)
(* component layers                                                        *)
(***************************************************************************)
DefaultPadSize == 5000

\* a line of a components file: CMP n x y rot mirror name [;ID=ref],
\* TOP/BOT n x y rot mirror net_num, PRP key 'val', junk
ComponentLine(k, n, x, y, rot, mirror, name, ref, net_num, key, val) ==
    [k |-> k, n |-> n, x |-> x, y |-> y, rot |-> rot, mirror |-> mirror,
     name |-> name, ref |-> ref, net_num |-> net_num, key |-> key, val |-> val]

\* _finalize_component: the ComponentInstance appended to model.components
FinalizeComponent(comp_data, pads, props, side, u, nets) ==
    LET pkg_name == DictGet(props, "COMP_PACKAGE_NAME", comp_data.name)
        again(v) == IF u # "MM" THEN convert_to_mm(v, u) ELSE v
        fp_pad(pad_data) ==
            [number |-> ToString(pad_data.pin),
             pad_def |-> PadDef("CIRCLE", DefaultPadSize, DefaultPadSize),
             pos |-> Point(again(pad_data.x), negate_y(again(pad_data.y))),
             rotation |-> pad_data.rotation,
             net_index |-> pad_data.net_num,
             net_name |-> NetNameOf(nets, pad_data.net_num),
             pad_type |-> "smd",
             layers |-> IF side = "TOP" THEN <<"F.Cu", "F.Paste", "F.Mask">>
                        ELSE <<"B.Cu", "B.Paste", "B.Mask">>]
    IN [reference |-> IF comp_data.ref # "" THEN comp_data.ref ELSE comp_data.name,
        footprint_name |-> pkg_name,
        footprint |-> Some([name |-> pkg_name,
                            pads |-> [i \in 1..Len(pads) |-> fp_pad(pads[i])],
                            graphics |-> <<>>]),
        pos |-> Point(comp_data.x, comp_data.y),
        rotation |-> comp_data.rotation,
        side |-> side,
        properties |-> props]

\* the line loop of _parse_component_layer and the "Save last component" after
\* it: cur is <<current_comp, current_pads, current_props>> or None
RECURSIVE ComponentScan(_, _, _, _, _, _, _)
ComponentScan(lines, i, cur, comps, side, u, nets) ==
    LET saved == IF IsSome(cur)
                 THEN Append(comps, FinalizeComponent(Val(cur)[1], Val(cur)[2],
                                                      Val(cur)[3], side, u, nets))
                 ELSE comps
    IN IF i > Len(lines) THEN saved
       ELSE LET ln == lines[i]
            IN CASE ln.k = "CMP" ->
                       ComponentScan(lines, i + 1,
                           Some(<<[index |-> ln.n,
                                   x |-> convert_to_mm(parse_float(ln.x), u),
                                   y |-> negate_y(convert_to_mm(parse_float(ln.y), u)),
                                   rotation |-> parse_float(ln.rot),
                                   mirror |-> Upper(ln.mirror),
                                   name |-> ln.name,
                                   ref |-> ln.ref],
                                  <<>>, <<>> >>),
                           saved, side, u, nets)
                 [] ln.k \in {"TOP", "BOT"} /\ IsSome(cur) ->
                       ComponentScan(lines, i + 1,
                           Some(<<Val(cur)[1],
                                  Append(Val(cur)[2],
                                         [pin |-> ln.n,
                                          x |-> convert_to_mm(parse_float(ln.x), u),
                                          y |-> convert_to_mm(parse_float(ln.y), u),
                                          rotation |-> parse_float(ln.rot),
                                          mirror |-> ln.mirror,
                                          net_num |-> ln.net_num]),
                                  Val(cur)[3]>>),
                           comps, side, u, nets)
                 [] ln.k = "PRP" /\ IsSome(cur) ->
                       ComponentScan(lines, i + 1,
                           Some(<<Val(cur)[1], Val(cur)[2],
                                  DictSet(Val(cur)[3], ln.key, ln.val)>>),
                           comps, side, u, nets)
                 [] OTHER -> ComponentScan(lines, i + 1, cur, comps, side, u, nets)

\* the directory _parse_component_layer reads for side_name: first by the names
\* of the entries of layers/, then by the COMPONENT layers of the matrix
ComponentDir(side_name, layers_dir, layers) ==
    LET by_name(e) ==
            e.is_dir /\ Contains(Lower(e.name), "comp")
               /\ IF side_name = "top"
                  THEN Contains(Lower(e.name), "top") \/ Contains(Lower(e.name), "_t$")
                  ELSE Contains(Lower(e.name), "bot") \/ Contains(Lower(e.name), "_b$")
        by_type(l) ==
            l.layer_type = "COMPONENT"
               /\ IF side_name = "top"
                  THEN Contains(Lower(l.odb_name), "top")
                          \/ Contains(Lower(l.odb_name), "comp")
                  ELSE Contains(Lower(l.odb_name), "bot")
                          \/ Contains(Lower(l.odb_name), "sold")
        i == FirstIndex([q \in 1..Len(layers_dir) |-> by_name(layers_dir[q])])
        j == FirstIndex([q \in 1..Len(layers) |-> by_type(layers[q])])
    IN IF i # 0 THEN Some(layers_dir[i])
       ELSE IF j # 0 THEN FindCi(layers_dir, layers[j].odb_name)
       ELSE None

\* _parse_component_layer: the new model.components
ParseComponentLayer(m, side_name, side, layers_dir, u) ==
    LET comp_dir == IF IsSome(layers_dir)
                    THEN ComponentDir(side_name, Val(layers_dir), m.layers) ELSE None
        content == IF IsSome(comp_dir) THEN Val(comp_dir).components ELSE None
    IN IF ~IsSome(content) THEN m.components
       ELSE ComponentScan(Val(content), 1, None, m.components, side, u, m.nets)

\* _parse_components: the top pass, then the bottom pass
ParseComponents(m, layers_dir, u) ==
    LET top == [m EXCEPT !.components = ParseComponentLayer(m, "top", "TOP", layers_dir, u)]
    IN [top EXCEPT !.components =
            ParseComponentLayer(top, "bottom", "BOTTOM", layers_dir, u)]

(***************************************************************************)
(* drill layers                                                            *)
(***************************************************************************)
DefaultDrill == 3000
AnnularRing == 2000

\* a line of a tools file: T<num> <dia>
ToolLine(k, num, dia) == [k |-> k, num |-> num, dia |-> dia]

RECURSIVE ParseTools(_, _, _, _)
ParseTools(lines, i, u, drill_tools) ==
    IF i > Len(lines) THEN drill_tools
    ELSE IF lines[i].k = "T"
         THEN ParseTools(lines, i + 1, u,
                         DictSet(drill_tools, lines[i].num,
                                 convert_to_mm(parse_float(lines[i].dia), u)))
         ELSE ParseTools(lines, i + 1, u, drill_tools)

\* one line of the loop of _parse_drill_layer; st is [sym_table, feature_id, vias]
DrillStep(st, ln, u, net_map, defs, drill_tools) ==
    LET sym_name == DictGet(st.sym_table, ln.sym, "")
        by_symbol == IF sym_name = "" THEN DefaultDrill ELSE SymbolPad(defs, sym_name).width
        drill == IF ln.sym \in DOMAIN drill_tools THEN drill_tools[ln.sym] ELSE by_symbol
    IN CASE ln.k = "$" -> [st EXCEPT !.sym_table = DictSet(@, ln.sym, ln.name)]
         [] ln.k = "P" ->
               [st EXCEPT !.vias = Append(@,
                              [pos |-> Point(convert_to_mm(parse_float(ln.xs), u),
                                             negate_y(convert_to_mm(parse_float(ln.ys), u))),
                               diameter |-> drill + AnnularRing,
                               drill |-> drill,
                               net_index |-> DictGet(net_map, st.feature_id, 0),
                               layers |-> <<"F.Cu", "B.Cu">>]),
                          !.feature_id = @ + 1]
         [] OTHER -> st

RECURSIVE DrillScan(_, _, _, _, _, _, _)
DrillScan(lines, i, st, u, net_map, defs, drill_tools) ==
    IF i > Len(lines) THEN st
    ELSE DrillScan(lines, i + 1, DrillStep(st, lines[i], u, net_map, defs, drill_tools),
                   u, net_map, defs, drill_tools)

\* _parse_drill_layer: the new model.vias
ParseDrillLayer(m, layer_def, layers_dir, u, lnm, defs) ==
    LET layer_dir == IF IsSome(layers_dir) THEN FindCi(Val(layers_dir), layer_def.odb_name)
                     ELSE None
        usable == IsSome(layer_dir)
        drill_tools == IF usable /\ IsSome(Val(layer_dir).tools)
                       THEN ParseTools(Val(Val(layer_dir).tools), 1, u, <<>>) ELSE <<>>
        content == IF usable THEN Val(layer_dir).features ELSE None
    IN IF ~IsSome(content) THEN m.vias
       ELSE DrillScan(Val(content), 1,
                      [sym_table |-> <<>>, feature_id |-> 0, vias |-> m.vias],
                      u, DictGet(lnm, layer_def.odb_name, <<>>), defs, drill_tools).vias

\* _parse_drill_layers: "for layer in self.model.layers" of type DRILL
RECURSIVE ParseDrillLayers(_, _, _, _, _, _)
ParseDrillLayers(m, j, layers_dir, u, lnm, defs) ==
    IF j > Len(m.layers) THEN m
    ELSE ParseDrillLayers(
             IF m.layers[j].layer_type = "DRILL"
             THEN [m EXCEPT !.vias = ParseDrillLayer(m, m.layers[j], layers_dir, u, lnm, defs)]
             ELSE m,
             j + 1, layers_dir, u, lnm, defs)

(***************************************************************************)
(* odb_to_json.py: model_to_json                                           *)
(***************************************************************************)
\* float(fmt(v)): six decimals, which every fixed-point value here has
FmtFloat(v) == v

JsonPoint(p) == <<FmtFloat(p.x), FmtFloat(p.y)>>

layer_type_str(lt) ==
    CASE lt = "SIGNAL" -> "signal"
      [] lt = "POWER" -> "power"
      [] lt = "MIXED" -> "mixed"
      [] OTHER -> "user"

pad_shape_str(shape) ==
    CASE shape = "CIRCLE" -> "circle"
      [] shape = "RECT" -> "rect"
      [] shape = "OVAL" -> "oval"
      [] shape = "ROUNDRECT" -> "roundrect"
      [] shape = "CUSTOM" -> "custom"
      [] OTHER -> "rect"

ipc_function_str(lt) ==
    CASE lt = "SIGNAL" -> "SIGNAL"
      [] lt = "POWER" -> "POWER_GROUND"
      [] lt = "MIXED" -> "SIGNAL"
      [] lt = "SOLDER_MASK" -> "SOLDERMASK"
      [] lt = "SILK_SCREEN" -> "SILKSCREEN"
      [] lt = "SOLDER_PASTE" -> "PASTEMASK"
      [] lt = "DRILL" -> "DRILL"
      [] lt = "DOCUMENT" -> "DOCUMENT"
      [] lt = "COMPONENT" -> "ASSEMBLY"
      [] OTHER -> "DOCUMENT"

side_str(side) ==
    CASE side = "TOP" -> "TOP" [] side = "BOTTOM" -> "BOTTOM" [] OTHER -> "ALL"

\* a rotation in the opposite sense
rotate_point_reversed(x, y, angle_deg) ==
    LET q == ((angle_deg \div FixedPoint) % 360) \div 90
        cos_a == CASE q = 0 -> 1 [] q = 1 -> 0 [] q = 2 -> -1 [] OTHER -> 0
        sin_a == CASE q = 0 -> 0 [] q = 1 -> -1 [] q = 2 -> 0 [] OTHER -> 1
    IN IF Abs(angle_deg) < 10 THEN <<x, y>>
       ELSE <<x * cos_a - y * sin_a, x * sin_a + y * cos_a>>

\* _rotate_point for the angles explored, whole multiples of 90 degrees
rotate_point(x, y, angle_deg) ==
    LET q == ((angle_deg \div FixedPoint) % 360) \div 90
        cos_a == CASE q = 0 -> 1 [] q = 1 -> 0 [] q = 2 -> -1 [] OTHER -> 0
        sin_a == CASE q = 0 -> 0 [] q = 1 -> 1 [] q = 2 -> 0 [] OTHER -> -1
    IN IF Abs(angle_deg) < 10 THEN <<x, y>>
       ELSE <<x * cos_a - y * sin_a, x * sin_a + y * cos_a>>

\* the "outline" section with the arcs left out
JsonOutlineSegments(outline) ==
    LET lines == SelectSeq(outline, LAMBDA it : it.item_type = "line")
    IN [segments |-> [i \in 1..Len(lines) |->
                         [start |-> JsonPoint(lines[i].start),
                          end |-> JsonPoint(lines[i].end),
                          width |-> FmtFloat(lines[i].width)]],
        arcs |-> <<>>]

\* the "outline" section: items that are neither a line nor an arc with a
\* midpoint go to neither array
JsonOutline(outline) ==
    LET lines == SelectSeq(outline, LAMBDA it : it.item_type = "line")
        arcs == SelectSeq(outline, LAMBDA it : it.item_type = "arc" /\ IsSome(it.mid))
    IN [segments |-> [i \in 1..Len(lines) |->
                         [start |-> JsonPoint(lines[i].start),
                          end |-> JsonPoint(lines[i].end),
                          width |-> FmtFloat(lines[i].width)]],
        arcs |-> [i \in 1..Len(arcs) |->
                     [start |-> JsonPoint(arcs[i].start), mid |-> Val(arcs[i].mid),
                      end |-> JsonPoint(arcs[i].end),
                      width |-> FmtFloat(arcs[i].width)]]]

\* one entry of pads_json
JsonPad(pad, comp) ==
    LET rel_x == pad.pos.x - comp.pos.x
        rel_y == pad.pos.y - comp.pos.y
        rot == IF Abs(comp.rotation) > 10
               THEN rotate_point(rel_x, rel_y, 0 - comp.rotation) ELSE <<rel_x, rel_y>>
        off_x == IF comp.side = "BOTTOM" THEN 0 - rot[1] ELSE rot[1]
    IN [name |-> pad.number, shape |-> pad_shape_str(pad.pad_def.shape),
        width |-> FmtFloat(pad.pad_def.width), height |-> FmtFloat(pad.pad_def.height),
        drill_diameter |-> FmtFloat(pad.pad_def.drill),
        offset |-> <<FmtFloat(off_x), FmtFloat(rot[2])>>,
        type |-> IF pad.pad_type # "" THEN pad.pad_type ELSE "smd",
        layer_side |-> IF pad.pad_type = "thru_hole" THEN "ALL"
                       ELSE IF comp.side = "BOTTOM" THEN "BOTTOM" ELSE "TOP",
        rotation |-> FmtFloat(pad.rotation)]

\* fp.name or comp.footprint_name or comp.reference
FootprintKey(comp) ==
    IF Val(comp.footprint).name # "" THEN Val(comp.footprint).name
    ELSE IF comp.footprint_name # "" THEN comp.footprint_name
    ELSE comp.reference

\* the pin_net_map of a component
RECURSIVE PinNetMap(_, _, _)
PinNetMap(pads, i, map) ==
    IF i > Len(pads) THEN map
    ELSE PinNetMap(pads, i + 1,
                   IF pads[i].net_name # "" THEN DictSet(map, pads[i].number, pads[i].net_name)
                   ELSE map)

\* the loop "for comp in model.components" storing a definition only for a
\* footprint that has pads
RECURSIVE ProjectComponentsPadded(_, _, _, _)
ProjectComponentsPadded(comps, i, footprint_defs, components_json) ==
    IF i > Len(comps)
    THEN [footprints |-> footprint_defs, components |-> components_json]
    ELSE IF ~IsSome(comps[i].footprint)
    THEN ProjectComponentsPadded(comps, i + 1, footprint_defs, components_json)
    ELSE LET comp == comps[i]
             fp == Val(comp.footprint)
             fp_name == FootprintKey(comp)
         IN ProjectComponentsPadded(comps, i + 1,
                IF fp_name \in DOMAIN footprint_defs \/ Len(fp.pads) = 0 THEN footprint_defs
                ELSE DictSet(footprint_defs, fp_name,
                             [name |-> fp_name, origin |-> <<0, 0>>,
                              pads |-> [k \in 1..Len(fp.pads) |-> JsonPad(fp.pads[k], comp)],
                              graphics |-> <<>>]),
                Append(components_json,
                       [refdes |-> comp.reference, footprint_ref |-> fp_name,
                        value |-> DictGet(comp.properties, "VALUE",
                                          DictGet(comp.properties, "COMP_VALUE", "")),
                        position |-> JsonPoint(comp.pos),
                        rotation |-> FmtFloat(comp.rotation),
                        mirror |-> (comp.side = "BOTTOM"),
                        pin_net_map |-> PinNetMap(fp.pads, 1, <<>>)]))

\* the loop "for comp in model.components" storing the definition of every
\* component, so that the last one of a name remains
RECURSIVE ProjectComponentsLast(_, _, _, _)
ProjectComponentsLast(comps, i, footprint_defs, components_json) ==
    IF i > Len(comps)
    THEN [footprints |-> footprint_defs, components |-> components_json]
    ELSE IF ~IsSome(comps[i].footprint)
    THEN ProjectComponentsLast(comps, i + 1, footprint_defs, components_json)
    ELSE LET comp == comps[i]
             fp == Val(comp.footprint)
             fp_name == FootprintKey(comp)
         IN ProjectComponentsLast(comps, i + 1,
                DictSet(footprint_defs, fp_name,
                        [name |-> fp_name, origin |-> <<0, 0>>,
                         pads |-> [k \in 1..Len(fp.pads) |-> JsonPad(fp.pads[k], comp)],
                         graphics |-> <<>>]),
                Append(components_json,
                       [refdes |-> comp.reference, footprint_ref |-> fp_name,
                        value |-> DictGet(comp.properties, "VALUE",
                                          DictGet(comp.properties, "COMP_VALUE", "")),
                        position |-> JsonPoint(comp.pos),
                        rotation |-> FmtFloat(comp.rotation),
                        mirror |-> (comp.side = "BOTTOM"),
                        pin_net_map |-> PinNetMap(fp.pads, 1, <<>>)]))

\* the loop "for comp in model.components": footprint_defs and components_json
RECURSIVE ProjectComponents(_, _, _, _)
ProjectComponents(comps, i, footprint_defs, components_json) ==
    IF i > Len(comps)
    THEN [footprints |-> footprint_defs, components |-> components_json]
    ELSE IF ~IsSome(comps[i].footprint)
    THEN ProjectComponents(comps, i + 1, footprint_defs, components_json)
    ELSE LET comp == comps[i]
             fp == Val(comp.footprint)
             fp_name == FootprintKey(comp)
         IN ProjectComponents(comps, i + 1,
                IF fp_name \in DOMAIN footprint_defs THEN footprint_defs
                ELSE DictSet(footprint_defs, fp_name,
                             [name |-> fp_name, origin |-> <<0, 0>>,
                              pads |-> [k \in 1..Len(fp.pads) |-> JsonPad(fp.pads[k], comp)],
                              graphics |-> <<>>]),
                Append(components_json,
                       [refdes |-> comp.reference, footprint_ref |-> fp_name,
                        value |-> DictGet(comp.properties, "VALUE",
                                          DictGet(comp.properties, "COMP_VALUE", "")),
                        position |-> JsonPoint(comp.pos),
                        rotation |-> FmtFloat(comp.rotation),
                        mirror |-> (comp.side = "BOTTOM"),
                        pin_net_map |-> PinNetMap(fp.pads, 1, <<>>)]))

\* the "zones" section: one JSON zone per ZonePolygon
JsonZones(zones) ==
    Flatten([z \in 1..Len(zones) |->
                [k \in 1..Len(zones[z].polygons) |->
                    [layer |-> zones[z].layer, net_id |-> zones[z].net_index,
                     net_name |-> zones[z].net_name,
                     outline |-> [q \in 1..Len(zones[z].polygons[k].outline) |->
                                     JsonPoint(zones[z].polygons[k].outline[q])]]]])

\* the sections of the result other than footprints and components
JsonSections(m) ==
    [outline |-> JsonOutline(m.outline),
     layers |-> [i \in 1..Len(m.layers) |->
                    [kicad_id |-> m.layers[i].layer_id,
                     kicad_name |-> m.layers[i].kicad_name,
                     type |-> layer_type_str(m.layers[i].layer_type),
                     ipc_name |-> m.layers[i].odb_name,
                     ipc_function |-> ipc_function_str(m.layers[i].layer_type),
                     ipc_side |-> side_str(m.layers[i].side),
                     copper_order |-> m.layers[i].copper_order]],
     nets |-> [i \in 1..Len(m.nets) |-> [id |-> m.nets[i].index, name |-> m.nets[i].name]],
     stackup |-> [board_thickness |-> FmtFloat(m.board_thickness),
                  layers |-> [i \in 1..Len(m.stackup) |-> m.stackup[i].name]],
     traces |-> [i \in 1..Len(m.traces) |->
                    [start |-> JsonPoint(m.traces[i].start),
                     end |-> JsonPoint(m.traces[i].end),
                     width |-> FmtFloat(m.traces[i].width),
                     layer |-> m.traces[i].layer, net_id |-> m.traces[i].net_index]],
     trace_arcs |-> [i \in 1..Len(m.arcs) |->
                        [start |-> JsonPoint(m.arcs[i].start), mid |-> m.arcs[i].mid,
                         end |-> JsonPoint(m.arcs[i].end),
                         width |-> FmtFloat(m.arcs[i].width),
                         layer |-> m.arcs[i].layer, net_id |-> m.arcs[i].net_index]],
     vias |-> [i \in 1..Len(m.vias) |->
                  [position |-> JsonPoint(m.vias[i].pos),
                   diameter |-> FmtFloat(m.vias[i].diameter),
                   drill |-> FmtFloat(m.vias[i].drill),
                   start_layer |-> IF Len(m.vias[i].layers) > 0
                                   THEN m.vias[i].layers[1] ELSE "F.Cu",
                   end_layer |-> IF Len(m.vias[i].layers) > 1
                                 THEN m.vias[i].layers[2] ELSE "B.Cu",
                   net_id |-> m.vias[i].net_index]],
     zones |-> JsonZones(m.zones),
     graphics |-> [i \in 1..Len(m.graphics) |->
                      [kind |-> m.graphics[i].item_type, layer |-> m.graphics[i].layer]]]

\* model_to_json writing "graphics" only when the model has graphics
model_to_json_sparse(m) ==
    LET pc3 == ProjectComponents(m.components, 1, <<>>, <<>>)
        all == JsonSections(m) @@ pc3
    IN IF Len(m.graphics) = 0
       THEN [k \in (DOMAIN all) \ {"graphics"} |-> all[k]] ELSE all

\* model_to_json: the result dictionary
model_to_json(m) ==
    JsonSections(m) @@ ProjectComponents(m.components, 1, <<>>, <<>>)

(***************************************************************************)
(* The explored inputs.  One sample job (the one of test/test_odb.py, with *)
(* a second step and a component layer) is varied one aspect at a time.    *)
(***************************************************************************)
MaxChildren == 2
MaxEdaLines == 3
MaxContour == 3
MaxFeatures == 3

\* a node of the searched tree
Node(is_dir, m, children) == [is_dir |-> is_dir, m |-> m, children |-> children]

\* LAYER { NAME=name TYPE=type }; the stanza without a NAME line has name ""
Stanza(name, type) ==
    <<MatrixLine("LAYER", "", "")>>
       \o (IF name = "" THEN <<>> ELSE <<MatrixLine("KV", "NAME", name)>>)
       \o <<MatrixLine("KV", "TYPE", type), MatrixLine("}", "", "")>>

StepStanza ==
    <<MatrixLine("STEP", "", ""), MatrixLine("KV", "NAME", "pcb"), MatrixLine("}", "", "")>>

Stanzas ==
    {Stanza("top", "SIGNAL"), Stanza("gnd", "POWER_GROUND"), Stanza("drill", "DRILL"),
     Stanza("sm_top", "SOLDER_MASK"), Stanza("", "SIGNAL")}

SampleMatrix ==
    StepStanza \o Stanza("top", "SIGNAL") \o Stanza("gnd", "POWER_GROUND")
       \o Stanza("comp_+_top", "COMPONENT") \o Stanza("drill", "drill")

\* three copper layers and a drill layer that spans from start to end
SpanMatrix(start, end) ==
    StepStanza \o Stanza("top", "SIGNAL") \o Stanza("gnd", "POWER_GROUND")
       \o Stanza("bot", "SIGNAL")
       \o <<MatrixLine("LAYER", "", ""), MatrixLine("KV", "NAME", "drill"),
            MatrixLine("KV", "TYPE", "DRILL"), MatrixLine("KV", "START_NAME", start),
            MatrixLine("KV", "END_NAME", end), MatrixLine("}", "", "")>>

Matrices == {StepStanza \o Flatten(ss) : ss \in SeqsUpTo(Stanzas, MaxLayers)}

\* an entry of steps/<step>/layers: a directory with its files
LayerDir(name, features, tools, components) ==
    [name |-> name, is_dir |-> TRUE, features |-> features, tools |-> tools,
     components |-> components]

Feat(k, xs, ys, xe, ye, sym) == FeatureLine(k, xs, ys, xe, ye, 0, 0, sym, "", "")

TopFeatures ==
    <<FeatureLine("$", 0, 0, 0, 0, 0, 0, 0, "", "r10"),
      Feat("L", 0, 0, 10, 0, 0),
      FeatureLine("A", 10, 0, 10, 10, 10, 5, 0, "Y", ""),
      Feat("S P", 0, 0, 0, 0, 0), Feat("OB", 0, 0, 0, 0, 0), Feat("OS", 10, 0, 0, 0, 0),
      Feat("OS", 10, 10, 0, 0, 0), Feat("OE", 0, 0, 0, 0, 0), Feat("SE", 0, 0, 0, 0, 0),
      Feat("P", 5, 5, 0, 0, 0)>>

GndFeatures == <<Feat("L", 0, 5, 10, 5, 1)>>

DrillFeatures ==
    <<FeatureLine("$", 0, 0, 0, 0, 0, 0, 0, "", "r12"), Feat("P", 5, 5, 0, 0, 0),
      Feat("P", 7, 5, 0, 0, 1)>>

Comp(k, n, x, y, rot, name, ref, net_num) ==
    ComponentLine(k, n, x, y, rot, "N", name, ref, net_num, "", "")

TopComponents ==
    <<Comp("CMP", 0, 5, 5, 0, "R0603", "R1", 0), Comp("TOP", 1, 4, 5, 0, "", "", 1),
      Comp("TOP", 2, 6, 5, 0, "", "", 0),
      ComponentLine("PRP", 0, 0, 0, 0, "", "", "", 0, "VALUE", "10k"),
      Comp("CMP", 1, 8, 8, 90, "R0603", "", 0), Comp("TOP", 1, 8, 7, 0, "", "", 2)>>

SampleLayers ==
    Some(<<LayerDir("top", Some(TopFeatures), None, None),
           LayerDir("gnd", Some(GndFeatures), None, None),
           LayerDir("drill", Some(DrillFeatures), Some(<<ToolLine("T", 1, 1)>>), None),
           LayerDir("comp_+_top", None, None, Some(TopComponents))>>)

SampleProfile ==
    Some(<<ContourLine("OB", 0, 0, 0, 0, ""), ContourLine("OS", 20, 0, 0, 0, ""),
           ContourLine("OC", 20, 10, 20, 5, "Y"), ContourLine("OS", 0, 10, 0, 0, ""),
           ContourLine("OE", 0, 0, 0, 0, "")>>)

\* the records of the features files explored
FeatureRecords ==
    {FeatureLine("$", 0, 0, 0, 0, 0, 0, 0, "", "r10"), Feat("L", 0, 0, 10, 0, 0),
     Feat("P", 5, 5, 0, 0, 0), FeatureLine("A", 10, 0, 10, 10, 10, 5, 0, "Y", ""),
     Feat("S P", 0, 0, 0, 0, 0), Feat("OB", 0, 0, 0, 0, 0), Feat("SE", 0, 0, 0, 0, 0)}

\* the sample layers with the given features file of the layer top
LayersWith(features) ==
    Some([Val(SampleLayers) EXCEPT ![1] = LayerDir("top", Some(features), None, None)])

\* the sample layers with a drill layer whose symbol 0 has the given name and
\* whose tools file is the given one
DrillLayersWith(sym_name, tools) ==
    Some([Val(SampleLayers) EXCEPT ![3] =
             LayerDir("drill",
                      Some(<<FeatureLine("$", 0, 0, 0, 0, 0, 0, 0, "", sym_name),
                             Feat("P", 5, 5, 0, 0, 0), Feat("P", 7, 5, 0, 0, 1)>>),
                      tools, None)])

\* the sample layers with the components file in the directory of the given
\* name, the first CMP record having the given mirror flag
ComponentLayersWith(dir_name, mirror) ==
    Some([Val(SampleLayers) EXCEPT ![4] =
             LayerDir(dir_name, None, None,
                      Some([TopComponents EXCEPT ![1].mirror = mirror]))])

\* a netlist whose only FID names the feature of ordinal k of the layer top
EdaWithFid(k) == Some(<<EdaLine("NET", "GND", "", 0), EdaLine("FID", "", "top", k)>>)

\* the OS records of the contours explored
ContourSegments ==
    {ContourLine("OS", 10, 0, 0, 0, ""), ContourLine("OS", 10, 10, 0, 0, ""),
     ContourLine("OS", 0, 0, 0, 0, "")}

\* the profiles of one contour: OB 0 0, at most MaxContour OS records, OE
Contours ==
    {Some(<<ContourLine("OB", 0, 0, 0, 0, "")>> \o segs
             \o <<ContourLine("OE", 0, 0, 0, 0, "")>>) :
        segs \in SeqsUpTo(ContourSegments, MaxContour)}

\* the profiles of at most MaxContour records in any order, a contour
\* without OB and an OE without contour among them
LooseProfiles ==
    {Some(pr) : pr \in SeqsUpTo({ContourLine("OB", 0, 0, 0, 0, ""),
                                 ContourLine("OS", 10, 0, 0, 0, ""),
                                 ContourLine("OC", 10, 10, 10, 5, "Y"),
                                 ContourLine("OE", 0, 0, 0, 0, "")}, MaxContour)}

\* the profiles in surface form: S P, a contour, SE, alone or after the
\* contour of the sample
SurfaceProfiles ==
    LET surface(c) == <<ContourLine("S P", 0, 0, 0, 0, "")>> \o Val(c)
                         \o <<ContourLine("SE", 0, 0, 0, 0, "")>>
    IN {Some(surface(c)) : c \in Contours}
          \cup {Some(Val(SampleProfile) \o surface(c)) : c \in Contours}

SampleEda ==
    Some(<<EdaLine("NET", "GND", "", 0), EdaLine("SNT", "", "", 0),
           EdaLine("FID", "", "top", 0), EdaLine("NET", "VCC", "", 0),
           EdaLine("FID", "", "drill", 0)>>)

EdaLines ==
    {EdaLine("NET", "GND", "", 0), EdaLine("NET", "VCC", "", 0), EdaLine("NET", "", "", 0),
     EdaLine("FID", "", "top", 1), EdaLine("junk", "", "", 0)}

EdaFiles == {None} \cup {Some(ls) : ls \in SeqsUpTo(EdaLines, MaxEdaLines)}

\* the files of one step directory
StepFiles(profile, eda, layers) == [profile |-> profile, eda |-> eda, layers |-> layers]

StepNames == {"array", "panel", "pcb"}

\* the files of the steps: "pcb" has the files given, the others a net of their own
StepData(files) ==
    [n \in StepNames |->
        IF n = "pcb" THEN files
        ELSE StepFiles(None, Some(<<EdaLine("NET", "ARR", "", 0)>>), None)]

StepEntry(name, is_dir) == [name |-> name, is_dir |-> is_dir]

\* the entry "symbols" of the root: a directory that can be listed, a
\* directory without read permission, or a regular file
SymbolsEntry(is_dir, listable, entries) ==
    [is_dir |-> is_dir, listable |-> listable, entries |-> entries]

SampleSymbols == Some(SymbolsEntry(TRUE, TRUE, <<StepEntry("r10", TRUE)>>))

\* the layer directories of the sample without any file in them
BareLayers ==
    Some(<<LayerDir("top", None, None, None), LayerDir("drill", None, None, None),
           LayerDir("comp_+_top", None, None, None)>>)

SampleJob ==
    [steps |-> Some(<<StepEntry("pcb", TRUE)>>),
     info |-> Some(<<InfoLine("UNITS", "MM")>>),
     matrix |-> Some(SampleMatrix),
     symbols |-> SampleSymbols,
     step_data |-> StepData(StepFiles(SampleProfile, SampleEda, SampleLayers))]

\* the sample job as a directory whose root holds matrix/matrix
SampleInput ==
    [kind |-> "dir", readable |-> TRUE, case_sensitive |-> TRUE,
     tree |-> Node(TRUE, "exact", <<>>), job |-> SampleJob]

NoArgs == [step |-> None, list_steps |-> FALSE]

\* a child of the opened input: a file, or a directory with at most one child
Children ==
    {Node(FALSE, "none", <<>>)}
       \cup {Node(TRUE, m, <<>>) : m \in {"none", "exact", "other_case"}}
       \cup {Node(TRUE, "none", <<Node(TRUE, m, <<>>)>>) : m \in {"exact", "other_case"}}

Trees ==
    {Node(TRUE, m, cs) : m \in {"none", "exact", "other_case"},
                         cs \in SeqsUpTo(Children, MaxChildren)}

StepDirs ==
    {None, Some(<<>>), Some(<<StepEntry("pcb", TRUE)>>),
     Some(<<StepEntry("pcb", TRUE), StepEntry("array", TRUE)>>),
     Some(<<StepEntry("array", TRUE), StepEntry("pcb", TRUE)>>),
     Some(<<StepEntry("panel", FALSE), StepEntry("pcb", TRUE)>>),
     Some(<<StepEntry("panel", FALSE)>>)}

\* the inputs that vary the matrix, the tree, the steps and the netlist
Inputs ==
    {[SampleInput EXCEPT !.job.matrix = Some(mx)] : mx \in Matrices}
       \cup {[SampleInput EXCEPT !.job.matrix =
                  Some(StepStanza \o Stanza("top", "SIGNAL") \o Stanza(nm, ty))] :
                nm \in {"sm_top", "SM_TOP", "sm_front", "asm_front", "sm_bot", "comp_b",
                        "sold_asm"},
                ty \in {"SOLDER_MASK", "SILK_SCREEN", "SOLDER_PASTE", "COMPONENT"}}
       \cup {[SampleInput EXCEPT !.job.matrix = mx] :
                mx \in {None, Some(<<>>), Some(SpanMatrix("top", "gnd")),
                        Some(SpanMatrix("gnd", "bot")), Some(SpanMatrix("top", "bot"))}}
       \cup {[SampleInput EXCEPT !.tree = t, !.case_sensitive = c, !.kind = k] :
                t \in Trees, c \in BOOLEAN, k \in {"dir", "tgz"}}
       \cup {[SampleInput EXCEPT !.job.steps = sd] : sd \in StepDirs}
       \cup {[SampleInput EXCEPT !.job.step_data =
                  StepData(StepFiles(SampleProfile, e, SampleLayers))] : e \in EdaFiles}
       \cup {[SampleInput EXCEPT !.kind = k, !.readable = r] :
                k \in {"dir", "tgz", "zip", "other"}, r \in BOOLEAN}
       \cup {[SampleInput EXCEPT !.job.info = i, !.job.symbols = sy, !.kind = k] :
                k \in {"dir", "zip"},
                i \in {None, Some(<<InfoLine("UNITS", "inch")>>),
                       Some(<<InfoLine("UNITS", "mil")>>),
                       Some(<<InfoLine("UNITS", "MM")>>)},
                sy \in {None, SampleSymbols, Some(SymbolsEntry(FALSE, TRUE, <<>>)),
                        Some(SymbolsEntry(TRUE, FALSE, <<>>))}}
       \cup {[SampleInput EXCEPT !.job.step_data = StepData(StepFiles(p, e, l))] :
                p \in {None, SampleProfile}, e \in {None, SampleEda},
                l \in {None, BareLayers, SampleLayers}}
       \cup {[SampleInput EXCEPT !.job.step_data =
                  StepData(StepFiles(pr, SampleEda, SampleLayers))] :
                pr \in Contours \cup SurfaceProfiles \cup LooseProfiles}
       \cup {[SampleInput EXCEPT !.job.step_data =
                  StepData(StepFiles(SampleProfile, EdaWithFid(k), LayersWith(fl)))] :
                fl \in SeqsUpTo(FeatureRecords, MaxFeatures), k \in 0..1}
       \cup {[SampleInput EXCEPT !.job.step_data =
                  StepData(StepFiles(SampleProfile, SampleEda,
                                     LayersWith(<<Feat("S P", 0, 0, 0, 0, 0)>> \o a \o b)))] :
                a \in SeqsUpTo({Feat("OB", 1, 1, 0, 0, 0), Feat("OS", 2, 2, 0, 0, 0)},
                               MaxFeatures - 1),
                b \in {<<>>, <<Feat("SE", 0, 0, 0, 0, 0)>>,
                       <<Feat("S P", 0, 0, 0, 0, 0), Feat("SE", 0, 0, 0, 0, 0)>>,
                       <<Feat("S P", 0, 0, 0, 0, 0), Feat("OS", 3, 3, 0, 0, 0),
                         Feat("SE", 0, 0, 0, 0, 0)>>,
                       <<Feat("S P", 0, 0, 0, 0, 0), Feat("OB", 3, 3, 0, 0, 0)>>}}
       \cup {[SampleInput EXCEPT !.job.step_data =
                  StepData(StepFiles(SampleProfile, SampleEda, DrillLayersWith(sy, tl)))] :
                sy \in {"r0", "r12", "s80"},
                tl \in {None, Some(<<ToolLine("T", 1, 1)>>), Some(<<ToolLine("T", 1, 0)>>),
                        Some(<<ToolLine("junk", 0, 0)>>)}}
       \cup {[SampleInput EXCEPT !.job.step_data =
                  StepData(StepFiles(SampleProfile, SampleEda, ComponentLayersWith(d, mi)))] :
                d \in {"comp_+_top", "comp_+_bot"}, mi \in {"N", "M"}}
       \cup {[SampleInput EXCEPT !.job.matrix =
                                     Some(StepStanza \o Stanza("top", "SIGNAL")
                                             \o Stanza("gnd", "POWER_GROUND")
                                             \o Stanza(d, "COMPONENT")
                                             \o Stanza("drill", "drill")),
                                 !.job.step_data =
                  StepData(StepFiles(SampleProfile, SampleEda,
                                     ComponentLayersWith(d, "N")))] :
                d \in {"comp_+_top", "comp_+_bot", "comp_t", "comp_b"}}
       \cup {[SampleInput EXCEPT !.job.matrix = mx,
                                 !.job.step_data = StepData(StepFiles(None, None, None))] :
                mx \in {Some(<<>>), Some(StepStanza)}}

\* the command lines: only the step directories are combined with -s
Commands(input) ==
    IF input.job.step_data # SampleJob.step_data THEN {NoArgs}
    ELSE IF input.job.steps = SampleJob.steps /\ input.tree = SampleInput.tree
          /\ input.job.matrix = SampleJob.matrix
    THEN {NoArgs, [NoArgs EXCEPT !.list_steps = TRUE]}
    ELSE IF input.job.steps # SampleJob.steps
    THEN {[step |-> st, list_steps |-> l] :
             st \in {None, Some("pcb"), Some("array")}, l \in BOOLEAN}
    ELSE IF input.job.matrix # SampleJob.matrix THEN {NoArgs}
    ELSE {NoArgs, [NoArgs EXCEPT !.list_steps = TRUE]}

(***************************************************************************)
(* The entry points as a state machine: main() of odb_to_json.py, which    *)
(* runs list_steps or parse_odb + model_to_json; OdbParser.parse is one    *)
(* step per stage, its try/finally being the step Cleanup.                 *)
(***************************************************************************)
\* the files of the step being parsed
StepDir == fs.job.step_data[Val(step_name)]

\* the statements of the try block of parse with profile and eda/data exchanged
StageAfterSwapped(stage) ==
    CASE stage = "open_archive" -> "find_root"
      [] stage = "find_root" -> "find_step"
      [] stage = "find_step" -> "misc_info"
      [] stage = "misc_info" -> "matrix"
      [] stage = "matrix" -> "eda_data"
      [] stage = "eda_data" -> "profile"
      [] stage = "profile" -> "symbols"
      [] stage = "symbols" -> "components"
      [] stage = "components" -> "layer_features"
      [] stage = "layer_features" -> "drill_layers"
      [] stage = "drill_layers" -> "net_zero"
      [] stage = "net_zero" -> "cleanup"

\* the statement that follows a stage in the try block of parse; the return
\* after the last one enters the finally clause
StageAfter(stage) ==
    CASE stage = "open_archive" -> "find_root"
      [] stage = "find_root" -> "find_step"
      [] stage = "find_step" -> "misc_info"
      [] stage = "misc_info" -> "matrix"
      [] stage = "matrix" -> "profile"
      [] stage = "profile" -> "eda_data"
      [] stage = "eda_data" -> "symbols"
      [] stage = "symbols" -> "components"
      [] stage = "components" -> "layer_features"
      [] stage = "layer_features" -> "drill_layers"
      [] stage = "drill_layers" -> "net_zero"
      [] stage = "net_zero" -> "cleanup"

\* an exception that is dropped where it is raised
RaiseSwallowed(exc, target) ==
    /\ pending' = None
    /\ pc' = target

\* "raise": the exception travels to the finally clause
Raise(exc, target) ==
    /\ pending' = Some(exc)
    /\ pc' = target

\* shutil.rmtree(temp_dir, ignore_errors=True) without effect
RmtreeNothing(d, t) == d

\* "if temp_dir: shutil.rmtree(temp_dir, ignore_errors=True)"
Rmtree(d, t) == IF IsSome(t) THEN d \ {Val(t)} ELSE d

Init ==
    /\ pc = "main"
    /\ fs \in Inputs
    /\ args \in Commands(fs)
    /\ disk \in IF fs = SampleInput THEN {{"input"}, {}} ELSE {{"input"}}
    /\ temp_dir = None
    /\ root = None
    /\ step_name = None
    /\ units = "MM"
    /\ model = PcbModel
    /\ layer_net_map = <<>>
    /\ symbol_defs = <<>>
    /\ pending = None
    /\ listing = None
    /\ result = None
    /\ counter = 0
    /\ issued = <<>>

\* main() up to the call of list_steps or parse_odb
Main ==
    /\ pc = "main"
    /\ pc' = IF "input" \notin disk THEN "exit1"
             ELSE IF args.list_steps THEN "ls_open" ELSE "parse_odb"
    /\ UNCHANGED <<fs, args, disk, temp_dir, root, step_name, units, model,
                   layer_net_map, symbol_defs, pending, listing, result>>
    /\ UNCHANGED <<counter, issued>>

\* parse_odb: reset_uuid_counter(), then a fresh OdbParser
ParseOdb ==
    /\ pc = "parse_odb"
    /\ pc' = "open_archive"
    /\ model' = PcbModel
    /\ root' = None
    /\ step_name' = None
    /\ units' = "MM"
    /\ temp_dir' = None
    /\ layer_net_map' = <<>>
    /\ symbol_defs' = <<>>
    /\ counter' = reset_uuid_counter
    /\ issued' = Append(issued, [op |-> "parse_odb", name |-> "", id |-> "",
                                 counter |-> reset_uuid_counter])
    /\ UNCHANGED <<fs, args, disk, pending, listing, result>>

OpenArchive ==
    /\ pc = "open_archive"
    /\ IF fs.kind = "dir"
       THEN /\ root' = Some(<<>>)
            /\ pc' = StageAfter(pc)
            /\ UNCHANGED <<temp_dir, disk, pending>>
       ELSE /\ temp_dir' = Some("scratch")
            /\ disk' = disk \cup {"scratch"}
            /\ IF fs.kind \in {"tgz", "zip"}
               THEN IF fs.readable
                    THEN /\ root' = Some(<<>>)
                         /\ pc' = StageAfter(pc)
                         /\ UNCHANGED pending
                    ELSE /\ Raise("ReadError: not a gzip file", "cleanup")
                         /\ UNCHANGED root
               ELSE /\ Raise("ValueError: Unsupported archive format", "cleanup")
                    /\ UNCHANGED root
    /\ UNCHANGED <<fs, args, step_name, units, model, layer_net_map, symbol_defs,
                   listing, result>>
    /\ UNCHANGED <<counter, issued>>

FindRootStep ==
    /\ pc = "find_root"
    /\ LET found == FindRoot(fs.tree, fs.case_sensitive)
       IN IF IsSome(found)
          THEN /\ root' = found
               /\ pc' = StageAfter(pc)
               /\ UNCHANGED pending
          ELSE /\ Raise("FileNotFoundError: Cannot find matrix/matrix", "cleanup")
               /\ UNCHANGED root
    /\ UNCHANGED <<fs, args, disk, temp_dir, step_name, units, model, layer_net_map,
                   symbol_defs, listing, result>>
    /\ UNCHANGED <<counter, issued>>

FindStepStep ==
    /\ pc = "find_step"
    /\ LET found == FindStep(fs.job.steps)
       IN IF IsSome(found)
          THEN /\ step_name' = found
               /\ pc' = StageAfter(pc)
               /\ UNCHANGED pending
          ELSE /\ Raise(IF IsSome(fs.job.steps)
                          THEN "FileNotFoundError: No step found in steps/ directory"
                          ELSE "FileNotFoundError: Cannot find steps/ directory",
                          "cleanup")
               /\ UNCHANGED step_name
    /\ UNCHANGED <<fs, args, disk, temp_dir, root, units, model, layer_net_map,
                   symbol_defs, listing, result>>
    /\ UNCHANGED <<counter, issued>>

MiscInfo ==
    /\ pc = "misc_info"
    /\ pc' = StageAfter(pc)
    /\ LET u == IF IsSome(fs.job.info) THEN ParseMiscInfo(Val(fs.job.info), 1, units)
                ELSE units
       IN /\ units' = u
          /\ model' = [model EXCEPT !.units = u]
    /\ UNCHANGED <<fs, args, disk, temp_dir, root, step_name, layer_net_map,
                   symbol_defs, pending, listing, result>>
    /\ UNCHANGED <<counter, issued>>

Matrix ==
    /\ pc = "matrix"
    /\ IF ~IsSome(fs.job.matrix) \/ Len(Val(fs.job.matrix)) = 0
       THEN /\ Raise("FileNotFoundError: matrix/matrix not found", "cleanup")
            /\ UNCHANGED model
       ELSE /\ model' = [model EXCEPT !.layers = ParseMatrix(Val(fs.job.matrix))]
            /\ pc' = StageAfter(pc)
            /\ UNCHANGED pending
    /\ UNCHANGED <<fs, args, disk, temp_dir, root, step_name, units, layer_net_map,
                   symbol_defs, listing, result>>
    /\ UNCHANGED <<counter, issued>>

Profile ==
    /\ pc = "profile"
    /\ pc' = StageAfter(pc)
    /\ model' = [model EXCEPT !.outline = ParseProfile(StepDir.profile, units, @)]
    /\ UNCHANGED <<fs, args, disk, temp_dir, root, step_name, units, layer_net_map,
                   symbol_defs, pending, listing, result>>
    /\ UNCHANGED <<counter, issued>>

EdaData ==
    /\ pc = "eda_data"
    /\ pc' = StageAfter(pc)
    /\ LET r == ParseEdaData(StepDir.eda, model.nets, layer_net_map)
       IN /\ model' = [model EXCEPT !.nets = r.nets]
          /\ layer_net_map' = r.layer_net_map
    /\ UNCHANGED <<fs, args, disk, temp_dir, root, step_name, units, symbol_defs,
                   pending, listing, result>>
    /\ UNCHANGED <<counter, issued>>

\* _parse_symbols; iterdir() of a symbols entry that is a file, or a
\* directory that may not be listed, raises
Symbols ==
    /\ pc = "symbols"
    /\ IF ~IsSome(fs.job.symbols)
       THEN /\ pc' = StageAfter(pc)
            /\ UNCHANGED <<symbol_defs, pending>>
       ELSE IF ~Val(fs.job.symbols).is_dir
       THEN /\ Raise("NotADirectoryError", "cleanup")
            /\ UNCHANGED symbol_defs
       ELSE IF ~Val(fs.job.symbols).listable
       THEN /\ Raise("PermissionError", "cleanup")
            /\ UNCHANGED symbol_defs
       ELSE /\ symbol_defs' = ParseSymbols(Val(fs.job.symbols).entries, 1, symbol_defs)
            /\ pc' = StageAfter(pc)
            /\ UNCHANGED pending
    /\ UNCHANGED <<fs, args, disk, temp_dir, root, step_name, units, model,
                   layer_net_map, listing, result>>
    /\ UNCHANGED <<counter, issued>>

Components ==
    /\ pc = "components"
    /\ pc' = StageAfter(pc)
    /\ model' = ParseComponents(model, StepDir.layers, units)
    /\ UNCHANGED <<fs, args, disk, temp_dir, root, step_name, units, layer_net_map,
                   symbol_defs, pending, listing, result>>
    /\ UNCHANGED <<counter, issued>>

LayerFeatures ==
    /\ pc = "layer_features"
    /\ pc' = StageAfter(pc)
    /\ model' = ParseLayerFeatures(model, 1, StepDir.layers, units, layer_net_map,
                                   symbol_defs)
    /\ UNCHANGED <<fs, args, disk, temp_dir, root, step_name, units, layer_net_map,
                   symbol_defs, pending, listing, result>>
    /\ UNCHANGED <<counter, issued>>

DrillLayers ==
    /\ pc = "drill_layers"
    /\ pc' = StageAfter(pc)
    /\ model' = ParseDrillLayers(model, 1, StepDir.layers, units, layer_net_map,
                                 symbol_defs)
    /\ UNCHANGED <<fs, args, disk, temp_dir, root, step_name, units, layer_net_map,
                   symbol_defs, pending, listing, result>>
    /\ UNCHANGED <<counter, issued>>

\* the tail of parse before "return self.model"
NetZero ==
    /\ pc = "net_zero"
    /\ pc' = StageAfter(pc)
    /\ model' = [model EXCEPT !.nets = EnsureNetZero(@)]
    /\ UNCHANGED <<fs, args, disk, temp_dir, root, step_name, units, layer_net_map,
                   symbol_defs, pending, listing, result>>
    /\ UNCHANGED <<counter, issued>>

\* the finally clause of parse: _cleanup, then the return or the exception
Cleanup ==
    /\ pc = "cleanup"
    /\ disk' = Rmtree(disk, temp_dir)
    /\ pc' = IF IsSome(pending) THEN "raised" ELSE "returned"
    /\ UNCHANGED <<fs, args, temp_dir, root, step_name, units, model, layer_net_map,
                   symbol_defs, pending, listing, result>>
    /\ UNCHANGED <<counter, issued>>

\* main(): "except Exception as e: ... sys.exit(1)"
MainError ==
    /\ pc = "raised"
    /\ pc' = "exit1"
    /\ UNCHANGED <<fs, args, disk, temp_dir, root, step_name, units, model,
                   layer_net_map, symbol_defs, pending, listing, result>>
    /\ UNCHANGED <<counter, issued>>

\* main(): json_data = model_to_json(model), written to stdout
ToJson ==
    /\ pc = "returned"
    /\ pc' = "exit0"
    /\ result' = Some(model_to_json(model))
    /\ UNCHANGED <<fs, args, disk, temp_dir, root, step_name, units, model,
                   layer_net_map, symbol_defs, pending, listing>>
    /\ UNCHANGED <<counter, issued>>

\* list_steps: the extraction; an unsupported suffix leaves root = path
LsOpen ==
    /\ pc = "ls_open"
    /\ IF fs.kind \in {"tgz", "zip"}
       THEN /\ temp_dir' = Some("scratch")
            /\ disk' = disk \cup {"scratch"}
            /\ IF fs.readable
               THEN /\ root' = Some(<<>>)
                    /\ pc' = "ls_find_root"
                    /\ UNCHANGED pending
               ELSE /\ Raise("ReadError: not a gzip file", "ls_cleanup")
                    /\ UNCHANGED root
       ELSE /\ root' = Some(<<>>)
            /\ pc' = "ls_find_root"
            /\ UNCHANGED <<temp_dir, disk, pending>>
    /\ UNCHANGED <<fs, args, step_name, units, model, layer_net_map, symbol_defs,
                   listing, result>>
    /\ UNCHANGED <<counter, issued>>

\* list_steps: parser._find_root(); iterdir() of a root that is a file raises
LsFindRoot ==
    /\ pc = "ls_find_root"
    /\ LET found == FindRoot(fs.tree, fs.case_sensitive)
       IN IF fs.kind = "other"
          THEN /\ Raise("NotADirectoryError", "ls_cleanup")
               /\ UNCHANGED <<root, listing>>
          ELSE IF IsSome(found)
          THEN /\ root' = found
               /\ pc' = "ls_steps"
               /\ UNCHANGED <<pending, listing>>
          ELSE /\ listing' = Some(<<>>)
               /\ pc' = "ls_cleanup"
               /\ UNCHANGED <<root, pending>>
    /\ UNCHANGED <<fs, args, disk, temp_dir, step_name, units, model, layer_net_map,
                   symbol_defs, result>>
    /\ UNCHANGED <<counter, issued>>

\* list_steps: the sorted names of the directories of steps/
LsSteps ==
    /\ pc = "ls_steps"
    /\ pc' = "ls_cleanup"
    /\ listing' = IF IsSome(fs.job.steps) THEN Some(ListStepNames(fs.job.steps))
                  ELSE Some(<<>>)
    /\ UNCHANGED <<fs, args, disk, temp_dir, root, step_name, units, model,
                   layer_net_map, symbol_defs, pending, result>>
    /\ UNCHANGED <<counter, issued>>

\* the finally clause of list_steps
LsCleanup ==
    /\ pc = "ls_cleanup"
    /\ disk' = Rmtree(disk, temp_dir)
    /\ pc' = IF IsSome(pending) THEN "exit1" ELSE "ls_print"
    /\ UNCHANGED <<fs, args, temp_dir, root, step_name, units, model, layer_net_map,
                   symbol_defs, pending, listing, result>>
    /\ UNCHANGED <<counter, issued>>

\* main(): the steps are printed, sys.exit(0)
LsPrint ==
    /\ pc = "ls_print"
    /\ pc' = "exit0"
    /\ UNCHANGED <<fs, args, disk, temp_dir, root, step_name, units, model,
                   layer_net_map, symbol_defs, pending, listing, result>>
    /\ UNCHANGED <<counter, issued>>

Next ==
    \/ Main
    \/ ParseOdb
    \/ OpenArchive
    \/ FindRootStep
    \/ FindStepStep
    \/ MiscInfo
    \/ Matrix
    \/ Profile
    \/ EdaData
    \/ Symbols
    \/ Components
    \/ LayerFeatures
    \/ DrillLayers
    \/ NetZero
    \/ Cleanup
    \/ MainError
    \/ ToJson
    \/ LsOpen
    \/ LsFindRoot
    \/ LsSteps
    \/ LsCleanup
    \/ LsPrint

Spec == Init /\ [][Next]_vars

(***************************************************************************)
(* model_to_json on its own: any PcbModel a caller may hand to it, as the  *)
(* tests of TestJsonBridge do.                                             *)
(***************************************************************************)
MaxComponents == 3

\* a FootprintPad as _finalize_component builds it
SamplePad(number, net_name) ==
    [number |-> number, pad_def |-> PadDef("CIRCLE", DefaultPadSize, DefaultPadSize),
     pos |-> Point(10000, 0), rotation |-> 0, net_index |-> 0, net_name |-> net_name,
     pad_type |-> "smd", layers |-> <<"F.Cu", "F.Paste", "F.Mask">>]

\* a ComponentInstance: footprint is None or a Footprint
Component(reference, footprint_name, footprint) ==
    [reference |-> reference, footprint_name |-> footprint_name, footprint |-> footprint,
     pos |-> Point(0, 0), rotation |-> 0, side |-> "TOP", properties |-> <<>>]

Footprint(name, pads) == [name |-> name, pads |-> pads, graphics |-> <<>>]

ComponentValues ==
    {Component("U1", "", None),
     Component("R1", "R0603", Some(Footprint("R0603", <<SamplePad("1", "GND")>>))),
     Component("R2", "R0603", Some(Footprint("R0603", <<>>))),
     Component("C1", "C0402", Some(Footprint("", <<SamplePad("1", "")>>))),
     Component("J1", "", Some(Footprint("", <<>>)))}

\* a component with one pad, placed and turned
Placed(reference, name, pos, rotation, side, pad_pos) ==
    [Component(reference, name,
               Some(Footprint(name, <<[SamplePad("1", "GND") EXCEPT !.pos = pad_pos]>>)))
        EXCEPT !.pos = pos, !.rotation = parse_float(rotation), !.side = side]

PlacedValues ==
    {Placed("R9", "R0603", pos, rotation, side, pad_pos) :
        pos \in {Point(0, 0), Point(10000, 20000)},
        rotation \in {-90, 0, 90, 180, 270},
        side \in {"TOP", "BOTTOM"},
        pad_pos \in {Point(10000, 0), Point(20000, -30000)}}

\* a placed component alone, after or before a component of the same
\* footprint name
PlacedLists ==
    LET r1 == Component("R1", "R0603", Some(Footprint("R0603", <<SamplePad("1", "GND")>>)))
        r2 == Component("R2", "R0603", Some(Footprint("R0603", <<>>)))
    IN {before \o <<c>> \o after :
           c \in PlacedValues,
           before \in {<<>>, <<r1>>, <<r2>>}, after \in {<<>>, <<r1>>}}

OutlineValues ==
    {<<>>,
     <<GraphicItem("line", Point(0, 0), Point(10000, 0), None)>>,
     <<GraphicItem("arc", Point(0, 0), Point(10000, 0), None),
       GraphicItem("circle", Point(0, 0), Point(10000, 0), None),
       GraphicItem("arc", Point(0, 0), Point(10000, 0),
                   Some(arc_center_to_mid(0, 0, 10000, 0, 5000, 0, FALSE)))>>}

ZoneValues ==
    {<<>>,
     <<[net_index |-> 0, net_name |-> "", layer |-> "F.Cu", polygons |-> <<>>]>>,
     <<[net_index |-> 1, net_name |-> "GND", layer |-> "F.Cu",
        polygons |-> <<[outline |-> <<Point(0, 0)>>, holes |-> <<>>],
                       [outline |-> <<Point(0, 0), Point(10000, 0)>>, holes |-> <<>>]>>]>>}

GraphicsValues ==
    {<<>>, <<[GraphicItem("line", Point(0, 0), Point(10000, 0), None)
                EXCEPT !.layer = "F.SilkS"]>>}

Models ==
    {[PcbModel EXCEPT !.components = cs] : cs \in SeqsUpTo(ComponentValues, MaxComponents)}
       \cup {[PcbModel EXCEPT !.components = cs] : cs \in PlacedLists}
       \cup {[PcbModel EXCEPT !.outline = o, !.zones = z, !.graphics = g] :
                o \in OutlineValues, z \in ZoneValues, g \in GraphicsValues}

\* parse_odb has returned some model to the caller of model_to_json
InitJson ==
    /\ pc = "returned"
    /\ fs = SampleInput
    /\ args = NoArgs
    /\ disk = {"input"}
    /\ temp_dir = None
    /\ root = None
    /\ step_name = None
    /\ units = "MM"
    /\ model \in Models
    /\ layer_net_map = <<>>
    /\ symbol_defs = <<>>
    /\ pending = None
    /\ listing = None
    /\ result = None
    /\ counter = 0
    /\ issued = <<>>

NextJson == ToJson

SpecJson == InitJson /\ [][NextJson]_vars

(***************************************************************************)
(* The package used as a library: a caller that asks for identifiers with  *)
(* make_uuid, resets the counter as the tests do, and calls parse_odb on   *)
(* the sample job; the stages of parse are the actions of Spec.            *)
(***************************************************************************)
MaxCalls == 3

\* the names handed to make_uuid; "" is the call without a name
UuidNames == {"", "test-name", "odb2kicad-1"}

InitUuid ==
    /\ pc = "caller"
    /\ fs = SampleInput
    /\ args = NoArgs
    /\ disk = {"input"}
    /\ temp_dir = None
    /\ root = None
    /\ step_name = None
    /\ units = "MM"
    /\ model = PcbModel
    /\ layer_net_map = <<>>
    /\ symbol_defs = <<>>
    /\ pending = None
    /\ listing = None
    /\ result = None
    /\ counter = 0
    /\ issued = <<>>

\* the caller calls make_uuid(name)
MakeUuid ==
    /\ pc = "caller"
    /\ Len(issued) < MaxCalls
    /\ \E name \in UuidNames :
          LET r == make_uuid(name, counter)
          IN /\ counter' = r.counter
             /\ issued' = Append(issued, [op |-> "make_uuid", name |-> name, id |-> r.id,
                                          counter |-> r.counter])
    /\ UNCHANGED <<pc, fs, args, disk, temp_dir, root, step_name, units, model,
                   layer_net_map, symbol_defs, pending, listing, result>>

\* the caller calls reset_uuid_counter()
ResetUuidCounter ==
    /\ pc = "caller"
    /\ Len(issued) < MaxCalls
    /\ counter' = reset_uuid_counter
    /\ issued' = Append(issued, [op |-> "reset", name |-> "", id |-> "",
                                 counter |-> reset_uuid_counter])
    /\ UNCHANGED <<pc, fs, args, disk, temp_dir, root, step_name, units, model,
                   layer_net_map, symbol_defs, pending, listing, result>>

\* the caller calls parse_odb(path)
CallParseOdb ==
    /\ pc = "caller"
    /\ Len(issued) < MaxCalls
    /\ pc' = "parse_odb"
    /\ UNCHANGED <<fs, args, disk, temp_dir, root, step_name, units, model,
                   layer_net_map, symbol_defs, pending, listing, result, counter, issued>>

\* parse_odb hands its model to the caller
ReturnToCaller ==
    /\ pc = "returned"
    /\ pc' = "caller"
    /\ UNCHANGED <<fs, args, disk, temp_dir, root, step_name, units, model,
                   layer_net_map, symbol_defs, pending, listing, result, counter, issued>>

NextUuid ==
    \/ MakeUuid
    \/ ResetUuidCounter
    \/ CallParseOdb
    \/ ParseOdb
    \/ OpenArchive
    \/ FindRootStep
    \/ FindStepStep
    \/ MiscInfo
    \/ Matrix
    \/ Profile
    \/ EdaData
    \/ Symbols
    \/ Components
    \/ LayerFeatures
    \/ DrillLayers
    \/ NetZero
    \/ Cleanup
    \/ ReturnToCaller

SpecUuid == InitUuid /\ [][NextUuid]_vars

(***************************************************************************)
(* Properties                                                              *)
(***************************************************************************)
\* parse has returned the model to its caller
Parsed == pc = "returned"

\* the copper layers of the model, in declaration order
CopperLayers == SelectSeq(model.layers, IsCopper)

\* C1: after every successful parse nets[0] has index 0 and the empty name,
\* nets[i].index = i at every position, and no other net has the empty name
C1_NetZero ==
    Parsed =>
        /\ Len(model.nets) >= 1
        /\ model.nets[1].index = 0
        /\ model.nets[1].name = ""
        /\ \A i \in 1..Len(model.nets) : model.nets[i].index = i - 1
        /\ \A i \in 2..Len(model.nets) : model.nets[i].name # ""

\* a parse of an eda/data file that holds a NET line without a name between
\* two named nets
C1_Witness ==
    /\ Parsed
    /\ IsSome(StepDir.eda)
    /\ Len(Val(StepDir.eda)) = 3
    /\ Val(StepDir.eda)[2] = EdaLine("NET", "", "", 0)
    /\ Len(model.nets) = 3

\* C2 as stated: with N >= 1 copper layers the first is F.Cu with id 0, the
\* last is B.Cu with id 2, and the k-th inner one is In<k>.Cu with id 2+2k
C2_AsStated ==
    LET cl == CopperLayers
        n == Len(cl)
    IN n >= 1 =>
          /\ cl[1].kicad_name = "F.Cu" /\ cl[1].layer_id = 0
          /\ cl[n].kicad_name = "B.Cu" /\ cl[n].layer_id = 2
          /\ \A k \in 1..(n - 2) :
                /\ cl[k + 1].kicad_name = "In" \o ToString(k) \o ".Cu"
                /\ cl[k + 1].layer_id = 2 + 2 * k

\* C2 (amended): with N >= 1 copper layers the first is F.Cu with id 0; with
\* N >= 2 the last is B.Cu with id 2 (a single copper layer is F.Cu only);
\* the k-th inner one, k = 1..N-2, is In<k>.Cu with id 2+2k
C2_CopperNames ==
    LET cl == CopperLayers
        n == Len(cl)
    IN /\ n >= 1 => cl[1].kicad_name = "F.Cu" /\ cl[1].layer_id = 0
       /\ n >= 2 => cl[n].kicad_name = "B.Cu" /\ cl[n].layer_id = 2
       /\ \A k \in 1..(n - 2) :
             /\ cl[k + 1].kicad_name = "In" \o ToString(k) \o ".Cu"
             /\ cl[k + 1].layer_id = 2 + 2 * k

\* a matrix with at least three copper layers and a layer that is not copper
C2_Witness ==
    /\ pc = "profile"
    /\ Len(CopperLayers) >= 3
    /\ Len(model.layers) > Len(CopperLayers)

\* C3: after _parse_matrix the copper layers carry copper_order 0, 1, ..., N-1
\* in declaration order, and every other layer keeps copper_order -1
C3_CopperOrder ==
    /\ \A k \in 1..Len(CopperLayers) : CopperLayers[k].copper_order = k - 1
    /\ \A j \in 1..Len(model.layers) :
          ~IsCopper(model.layers[j]) => model.layers[j].copper_order = -1

\* a matrix with a layer that is not copper declared between two copper layers
C3_Witness ==
    /\ pc = "profile"
    /\ \E i, j, k \in 1..Len(model.layers) :
          /\ i < j /\ j < k
          /\ IsCopper(model.layers[i])
          /\ ~IsCopper(model.layers[j])
          /\ IsCopper(model.layers[k])

\* the kicad_name of the layers of the model
LayerNames == {model.layers[j].kicad_name : j \in 1..Len(model.layers)}

\* C4: after every successful parse the layer of every trace, arc and zone and
\* both layers of every via are the kicad_name of some layer of the model
C4_LayersResolve ==
    Parsed =>
        /\ \A i \in 1..Len(model.traces) : model.traces[i].layer \in LayerNames
        /\ \A i \in 1..Len(model.arcs) : model.arcs[i].layer \in LayerNames
        /\ \A i \in 1..Len(model.zones) : model.zones[i].layer \in LayerNames
        /\ \A i \in 1..Len(model.vias) :
              /\ model.vias[i].layers[1] \in LayerNames
              /\ model.vias[i].layers[2] \in LayerNames

\* C5: every entry of "components" has a footprint_ref that is a key of
\* "footprints", whatever the list of components
C5_FootprintRefs ==
    IsSome(result) =>
        \A i \in 1..Len(Val(result).components) :
            Val(result).components[i].footprint_ref \in DOMAIN Val(result).footprints

\* three components projected, two of them sharing one footprint name, the
\* second of which has no pads
C5_Witness ==
    /\ IsSome(result)
    /\ Len(Val(result).components) = 3
    /\ Val(result).components[2].footprint_ref = "R0603"
    /\ Val(result).components[3].footprint_ref = "R0603"
    /\ Len(Val(model.components[3].footprint).pads) = 0
    /\ Cardinality(DOMAIN Val(result).footprints) = 2

\* C6: for a model produced by the parser the result has as many layers, nets,
\* traces, trace_arcs, vias, zones and components as the model, and segments
\* and arcs of the outline together as many entries as model.outline
C6_CountsKept ==
    IsSome(result) =>
        LET r == Val(result)
        IN /\ Len(r.layers) = Len(model.layers)
           /\ Len(r.nets) = Len(model.nets)
           /\ Len(r.traces) = Len(model.traces)
           /\ Len(r.trace_arcs) = Len(model.arcs)
           /\ Len(r.vias) = Len(model.vias)
           /\ Len(r.zones) = Len(model.zones)
           /\ Len(r.components) = Len(model.components)
           /\ Len(r.outline.segments) + Len(r.outline.arcs) = Len(model.outline)

\* a parsed board with an arc in its outline, a zone, vias and two components
C6_Witness ==
    /\ IsSome(result)
    /\ \E i \in 1..Len(model.outline) : model.outline[i].item_type = "arc"
    /\ Len(model.zones) >= 1
    /\ Len(model.vias) >= 2
    /\ Len(model.components) >= 2
    /\ Len(model.arcs) >= 1

TopLevelKeys ==
    {"outline", "layers", "nets", "stackup", "footprints", "components", "traces",
     "trace_arcs", "vias", "zones", "graphics"}

\* C7: the result has all eleven top-level keys for every model, and its
\* outline always holds both a segments and an arcs array
C7_TopLevelKeys ==
    IsSome(result) =>
        /\ TopLevelKeys \subseteq DOMAIN Val(result)
        /\ {"segments", "arcs"} \subseteq DOMAIN Val(result).outline

\* the projection of the model whose lists are all empty
C7_Witness ==
    /\ IsSome(result)
    /\ model = PcbModel

\* the step named on the command line when steps/ has a directory of that
\* name, else the first directory of steps/ in sorted order
NamedOrFirstStep ==
    IF IsSome(args.step) /\ IsSome(fs.job.steps)
          /\ \E i \in 1..Len(Val(fs.job.steps)) :
                Val(fs.job.steps)[i] = StepEntry(Val(args.step), TRUE)
    THEN args.step
    ELSE FindStep(fs.job.steps)

\* C8: step discovery selects the step named with -s when one is named, else
\* the first directory of steps/ in sorted order, and that step is parsed
C8_NamedStep ==
    IsSome(step_name) => step_name = NamedOrFirstStep

\* the candidate that root discovery is said to select: depth 0, then each
\* child, then each grand-child, matrix/matrix under any letter case
AnyCaseRoot ==
    LET hit(node) == node.is_dir /\ node.m \in {"exact", "other_case"}
        below(child) == FirstIndex([q \in 1..Len(child.children) |->
                                       hit(child.children[q])])
        holds(child) == child.is_dir /\ below(child) # 0
        i1 == FirstIndex([q \in 1..Len(fs.tree.children) |-> hit(fs.tree.children[q])])
        i2 == FirstIndex([q \in 1..Len(fs.tree.children) |-> holds(fs.tree.children[q])])
    IN IF hit(fs.tree) THEN Some(<<>>)
       ELSE IF i1 # 0 THEN Some(<<i1>>)
       ELSE IF i2 # 0 THEN Some(<<i2, below(fs.tree.children[i2])>>)
       ELSE None

\* C9: a scratch directory that parse or list_steps created is gone when the
\* call has returned or raised, on every exit path; a directory input makes
\* no scratch directory; the input is never deleted
C9_ScratchRemoved ==
    /\ [](pc \in {"returned", "raised", "ls_print", "exit0", "exit1"}
             => "scratch" \notin disk)
    /\ [](fs.kind = "dir" => (temp_dir = None /\ "scratch" \notin disk))
    /\ [][("input" \in disk) => ("input" \in disk')]_vars

\* parse has raised after it had extracted an archive into a scratch directory
C9_Witness ==
    /\ pc = "raised"
    /\ temp_dir = Some("scratch")
    /\ pending = Some("NotADirectoryError")
    /\ "input" \in disk

\* C10: root discovery sets the root to the first candidate, in the order
\* depth 0, children, grand-children, that holds matrix/matrix under any
\* letter case, and rejects the tree only when there is none within depth 2
C10_AnyCaseRoot ==
    /\ pc = "find_step" => root = AnyCaseRoot
    /\ pending = Some("FileNotFoundError: Cannot find matrix/matrix")
          => AnyCaseRoot = None

\* the inputs that parse rejects: a file that is no archive, a tree without
\* matrix/matrix within depth 2, no steps/ directory or no directory in it,
\* an unreadable matrix/matrix
FatalInput ==
    \/ fs.kind = "other"
    \/ AnyCaseRoot = None
    \/ ~IsSome(fs.job.steps)
    \/ \A i \in 1..Len(Val(fs.job.steps)) : ~Val(fs.job.steps)[i].is_dir
    \/ ~IsSome(fs.job.matrix)

\* the stages of parse that follow the reading of the matrix
LaterStages ==
    {"profile", "eda_data", "symbols", "components", "layer_features", "drill_layers",
     "net_zero"}

\* C11: on an input with an unrecognized extension, without matrix/matrix
\* within depth 2, without a step directory or with an unreadable matrix,
\* parse ends with an error: no later stage runs, the exception is pending
\* when the finally clause is reached, and no model reaches the caller
C11_FatalNoModel ==
    (FatalInput /\ ~args.list_steps) =>
        /\ pc \notin LaterStages \cup {"returned", "exit0"}
        /\ pc \in {"cleanup", "raised"} => IsSome(pending)
        /\ result = None

\* parse has raised on an unreadable matrix after the units were stored in
\* the model under construction
C11_Witness ==
    /\ pc = "raised"
    /\ ~IsSome(fs.job.matrix)
    /\ pending = Some("FileNotFoundError: matrix/matrix not found")
    /\ model.units = "MM"
    /\ result = None

\* the exceptions of the fatal classes: the archive cannot be opened, no
\* root, no step, no matrix
FatalErrors ==
    {"ReadError: not a gzip file", "ValueError: Unsupported archive format",
     "FileNotFoundError: Cannot find matrix/matrix",
     "FileNotFoundError: No step found in steps/ directory",
     "FileNotFoundError: Cannot find steps/ directory",
     "FileNotFoundError: matrix/matrix not found"}

\* C12: once the root, the step and the matrix are found, the absence or
\* unreadability of misc/info, profile, eda/data, the symbols directory, a
\* components file, a features file or a tools file never aborts the parse:
\* no exception other than the fatal ones is ever pending in parse
C12_OptionalTolerated ==
    (~args.list_steps /\ IsSome(pending)) => Val(pending) \in FatalErrors

\* the matrix file exists and holds no LAYER stanza
DeclaresNoLayers ==
    /\ IsSome(fs.job.matrix)
    /\ \A i \in 1..Len(Val(fs.job.matrix)) : Val(fs.job.matrix)[i].k # "LAYER"

\* C13: for an input that declares no layers (an empty matrix file or one
\* without LAYER stanza) and has a step directory, parse succeeds and the
\* model has the nets [net 0 ""], no layers, and no traces, arcs, vias, zones
\* or components
C13_EmptyArchive ==
    (DeclaresNoLayers /\ IsSome(step_name) /\ ~args.list_steps) =>
        /\ pending = None
        /\ Parsed =>
              /\ model.nets = <<NetDef(0, "")>>
              /\ model.layers = <<>>
              /\ model.traces = <<>>
              /\ model.arcs = <<>>
              /\ model.vias = <<>>
              /\ model.zones = <<>>
              /\ model.components = <<>>

\* the profile of the parsed step is one contour: OB, n OS records, OE
IsContour ==
    /\ IsSome(StepDir.profile)
    /\ Len(Val(StepDir.profile)) >= 2
    /\ \A i \in 1..Len(Val(StepDir.profile)) :
          Val(StepDir.profile)[i].k = (IF i = 1 THEN "OB"
                                       ELSE IF i = Len(Val(StepDir.profile)) THEN "OE"
                                       ELSE "OS")

\* the contour's last point has the coordinates of its first
ReturnsToStart ==
    LET pr == Val(StepDir.profile)
    IN /\ pr[Len(pr) - 1].x = pr[1].x
       /\ pr[Len(pr) - 1].y = pr[1].y

\* C14: at OE exactly one closing line from the last point to the first is
\* appended when the two differ, none when they are equal: a contour of OB
\* and n OS records yields n outline items when it returns to its start and
\* n + 1 otherwise, the last of which is the closing line
C14_ClosingLine ==
    (Parsed /\ IsContour) =>
        LET pr == Val(StepDir.profile)
            n == Len(pr) - 2
            pt(i) == Point(convert_to_mm(parse_float(pr[i].x), units),
                           negate_y(convert_to_mm(parse_float(pr[i].y), units)))
        IN IF ReturnsToStart
           THEN Len(model.outline) = n
           ELSE /\ Len(model.outline) = n + 1
                /\ model.outline[n + 1] = GraphicItem("line", pt(n + 1), pt(1), None)
                /\ \A i \in 1..n :
                      model.outline[i] = GraphicItem("line", pt(i), pt(i + 1), None)

\* a parsed contour of two OS records that does not return to its start
C14_Witness ==
    /\ Parsed
    /\ IsContour
    /\ Len(Val(StepDir.profile)) = 4
    /\ ~ReturnsToStart
    /\ Len(model.outline) = 3

\* the records that count as features
CountedRecords == {"L", "P", "A", "S P"}

\* the number of L, P, A and S P records before line i of a features file
Ordinal(features, i) ==
    Cardinality({j \in 1..(i - 1) : features[j].k \in CountedRecords})

\* the lines of the features file of a copper layer, <<>> without a file
FeaturesOf(cl) ==
    LET dir == IF IsSome(StepDir.layers) THEN FindCi(Val(StepDir.layers), cl.odb_name)
               ELSE None
    IN IF IsSome(dir) /\ IsSome(Val(dir).features) THEN Val(Val(dir).features) ELSE <<>>

\* the net that the FID map gives the feature of line i of layer cl
FidNet(cl, i) ==
    DictGet(DictGet(layer_net_map, cl.odb_name, <<>>), Ordinal(FeaturesOf(cl), i), 0)

\* the nets expected of the records of kind k of layer cl, in file order
ExpectedNets(cl, k) ==
    LET fl == FeaturesOf(cl)
        isK(i) == fl[i].k = k
        at == SelectSeq([i \in 1..Len(fl) |-> i], isK)
    IN [n \in 1..Len(at) |-> FidNet(cl, at[n])]

\* the last S P or SE record before line i of a features file, 0 if none
Opener(fl, i) ==
    LET before == {j \in 1..(i - 1) : fl[j].k \in {"S P", "SE"}}
    IN IF before = {} THEN 0 ELSE CHOOSE j \in before : \A q \in before : q <= j

\* the nets expected of the zones of layer cl: one zone for each SE that ends
\* a surface with at least one point, with the net of the surface's S P
ExpectedZoneNets(cl) ==
    LET fl == FeaturesOf(cl)
        ends(i) ==
            /\ fl[i].k = "SE"
            /\ Opener(fl, i) # 0
            /\ fl[Opener(fl, i)].k = "S P"
            /\ \E q \in (Opener(fl, i) + 1)..(i - 1) : fl[q].k \in {"OB", "OS", "OC"}
        at == SelectSeq([i \in 1..Len(fl) |-> i], ends)
    IN [n \in 1..Len(at) |-> FidNet(cl, Opener(fl, at[n]))]

\* the net_index of the items of a list that lie on layer cl
NetsOn(items, cl) ==
    LET on(it) == it.layer = cl.kicad_name
        sel == SelectSeq(items, on)
    IN [n \in 1..Len(sel) |-> sel[n].net_index]

\* C15: feature_id starts at 0 and advances by one at each L, P, A and S P
\* record and at no other line; the trace of an L record and the arc of an A
\* record carry the net that the FID map of the layer holds for the number of
\* L, P, A and S P records before them, and net 0 without such an entry;
\* a zone carries the net found in the same way for its S P record
C15_FeatureOrdinals ==
    Parsed =>
        \A j \in 1..Len(model.layers) :
            IsCopper(model.layers[j]) =>
                /\ NetsOn(model.traces, model.layers[j]) = ExpectedNets(model.layers[j], "L")
                /\ NetsOn(model.arcs, model.layers[j]) = ExpectedNets(model.layers[j], "A")
                /\ NetsOn(model.zones, model.layers[j]) = ExpectedZoneNets(model.layers[j])

\* a parsed layer top whose file holds a pad, a symbol line and a line, with
\* a FID for ordinal 1: the line is the second feature and carries net 1
C15_Witness ==
    /\ Parsed
    /\ StepDir.eda = EdaWithFid(1)
    /\ StepDir.layers = LayersWith(<<Feat("P", 5, 5, 0, 0, 0),
                                     FeatureLine("$", 0, 0, 0, 0, 0, 0, 0, "", "r10"),
                                     Feat("L", 0, 0, 10, 0, 0)>>)
    /\ \E t \in 1..Len(model.traces) :
          model.traces[t].layer = "F.Cu" /\ model.traces[t].net_index = 1

\* the stages of parse in the order stated: open, root, step, units, matrix,
\* profile, EDA, symbols, components, layer features, drills, net re-indexing
StageOrder ==
    <<"open_archive", "find_root", "find_step", "misc_info", "matrix", "profile",
      "eda_data", "symbols", "components", "layer_features", "drill_layers", "net_zero">>

\* the position of a stage in StageOrder, 0 for any other value of pc
StageIndex(stage) ==
    IF \E i \in 1..Len(StageOrder) : StageOrder[i] = stage
    THEN CHOOSE i \in 1..Len(StageOrder) : StageOrder[i] = stage
    ELSE 0

\* C16: the stages of one parse run at most once each and in the fixed order
\* open, root, step, units, matrix, profile, EDA, symbols, components, layer
\* features, drills, net re-indexing: a stage is followed by the next stage
\* of the order, or by the finally clause when it raised or was the last; a
\* stage that raised is followed by no stage
C16_StageOrder ==
    /\ [][StageIndex(pc) # 0 =>
             \/ /\ StageIndex(pc') = StageIndex(pc) + 1
                /\ pending' = None
             \/ /\ pc' = "cleanup"
                /\ IsSome(pending') \/ StageIndex(pc) = Len(StageOrder)]_vars
    /\ [][(pc \in {"cleanup", "raised", "returned", "exit0", "exit1"})
             => StageIndex(pc') = 0]_vars
    /\ [][IsSome(pending) => (IsSome(pending') /\ StageIndex(pc') = 0)]_vars

\* parse has raised in the symbols stage: the matrix was read, and the
\* components, features and drills of the step were never parsed
C16_Witness ==
    /\ pc = "raised"
    /\ pending = Some("PermissionError")
    /\ Len(model.layers) > 0
    /\ StepDir.layers = SampleLayers
    /\ model.components = <<>>
    /\ model.traces = <<>>
    /\ model.vias = <<>>

\* C17: every via of the model has diameter > drill > 0, whatever the drill
\* layer holds, a symbol that decodes to the diameter 0 and any diameter of
\* the tools file included
C17_ViaDimensions ==
    \A i \in 1..Len(model.vias) :
        /\ model.vias[i].diameter > model.vias[i].drill
        /\ model.vias[i].drill > 0

\* the values of the matrix lines KEY=value with the given key
MatrixValues(key) ==
    IF IsSome(fs.job.matrix)
    THEN {Val(fs.job.matrix)[i].val : i \in {q \in 1..Len(Val(fs.job.matrix)) :
                                                Val(fs.job.matrix)[q].k = "KV"
                                                   /\ Val(fs.job.matrix)[q].key = key}}
    ELSE {}

\* the kicad names of the layers of the model with an ODB++ name of the set
KicadNames(odb_names) ==
    {model.layers[j].kicad_name : j \in {q \in 1..Len(model.layers) :
                                            model.layers[q].odb_name \in odb_names}}

\* C18: the vias span (F.Cu, B.Cu) when the drill layer has no START_NAME and
\* END_NAME, and the layers that START_NAME and END_NAME name when it has
C18_DrillSpan ==
    Parsed =>
        \A i \in 1..Len(model.vias) :
            IF MatrixValues("START_NAME") = {} \/ MatrixValues("END_NAME") = {}
            THEN model.vias[i].layers = <<"F.Cu", "B.Cu">>
            ELSE /\ model.vias[i].layers[1] \in KicadNames(MatrixValues("START_NAME"))
                 /\ model.vias[i].layers[2] \in KicadNames(MatrixValues("END_NAME"))

\* the CMP records of the components files of the step, each with the side
\* of the layer directory that holds its file
CmpRecords ==
    LET dirs == IF IsSome(StepDir.layers) THEN Val(StepDir.layers) ELSE <<>>
        has(d) == IsSome(d.components)
        isCmp(ln) == ln.k = "CMP"
        of(d) == LET cmps == SelectSeq(Val(d.components), isCmp)
                 IN [n \in 1..Len(cmps) |->
                        [mirror |-> cmps[n].mirror,
                         layer_side |-> IF Contains(Lower(d.name), "bot")
                                        THEN "BOTTOM" ELSE "TOP"]]
        files == SelectSeq(dirs, has)
    IN Flatten([n \in 1..Len(files) |-> of(files[n])])

\* C19: the side of a component is the one its CMP record's mirror flag
\* states (M: bottom) when the flag is set, and the side of the layer file
\* that holds the record otherwise
C19_MirrorSide ==
    (Parsed /\ Len(model.components) = Len(CmpRecords)) =>
        \A i \in 1..Len(model.components) :
            model.components[i].side =
                IF CmpRecords[i].mirror = "M" THEN "BOTTOM" ELSE CmpRecords[i].layer_side

\* the records of a profile that do not lie between an S P line and its SE
OutsideSurfaces(pr) ==
    LET outside(i) == Opener(pr, i) = 0 \/ pr[Opener(pr, i)].k # "S P"
        at == SelectSeq([i \in 1..Len(pr) |-> i], outside)
    IN [n \in 1..Len(at) |-> pr[at[n]]]

\* C20: a surface-form profile is skipped: the records between an S P line
\* and its SE line add no item to model.outline, which holds the items of the
\* contour records outside the surfaces and nothing else
C20_SurfaceSkipped ==
    (Parsed /\ IsSome(StepDir.profile)) =>
        model.outline = ProfileScan(OutsideSurfaces(Val(StepDir.profile)), 1, units,
                                    <<>>, FALSE, <<>>)

\* C21: every zone of the model has at least one polygon, and the outline of
\* every polygon of a zone has at least 3 points, whatever the records of
\* the surface are
C21_ZonePolygons ==
    \A z \in 1..Len(model.zones) :
        /\ Len(model.zones[z].polygons) >= 1
        /\ \A q \in 1..Len(model.zones[z].polygons) :
              Len(model.zones[z].polygons[q].outline) >= 3

\* the components of the model that have a footprint, in model order
WithFootprint ==
    LET has(c) == IsSome(c.footprint)
    IN SelectSeq(model.components, has)

\* the first component of the model that carries the footprint name
FirstOfName(name) ==
    WithFootprint[CHOOSE i \in 1..Len(WithFootprint) :
                     /\ FootprintKey(WithFootprint[i]) = name
                     /\ \A q \in 1..(i - 1) : FootprintKey(WithFootprint[q]) # name]

\* C22: "footprints" holds exactly one definition for each footprint name of
\* the components, built from the pads, position, rotation and side of the
\* first component of the model that carries the name; no later component of
\* that name changes it
C22_FirstOccurrence ==
    IsSome(result) =>
        /\ DOMAIN Val(result).footprints
              = {FootprintKey(WithFootprint[i]) : i \in 1..Len(WithFootprint)}
        /\ \A name \in DOMAIN Val(result).footprints :
              LET first == FirstOfName(name)
                  pads == Val(first.footprint).pads
              IN Val(result).footprints[name] =
                    [name |-> name, origin |-> <<0, 0>>,
                     pads |-> [k \in 1..Len(pads) |-> JsonPad(pads[k], first)],
                     graphics |-> <<>>]

\* two components of one footprint name, the second on the bottom side,
\* turned by 90 degrees and with another pad position: the definition has
\* the pad offset of the first
C22_Witness ==
    /\ IsSome(result)
    /\ Len(model.components) = 2
    /\ model.components[1].reference = "R1"
    /\ model.components[2] = Placed("R9", "R0603", Point(10000, 20000), 90, "BOTTOM",
                                    Point(20000, -30000))
    /\ DOMAIN Val(result).footprints = {"R0603"}
    /\ Val(result).footprints["R0603"].pads[1].offset = <<FmtFloat(10000), FmtFloat(0)>>

\* the point (dx, dy) turned by minus a rotation of 0, 90, 180 or 270
\* degrees (-90 is 270), then mirrored in X for the bottom side
ExpectedOffset(dx, dy, rotation, side) ==
    LET turns == ((rotation \div FixedPoint) % 360) \div 90
        turned == CASE turns = 0 -> <<dx, dy>>
                    [] turns = 1 -> <<dy, 0 - dx>>
                    [] turns = 2 -> <<0 - dx, 0 - dy>>
                    [] OTHER -> <<0 - dy, dx>>
    IN <<IF side = "BOTTOM" THEN 0 - turned[1] ELSE turned[1], turned[2]>>

\* C23: the offset of each projected pad is the pad position minus the
\* position of the component the definition was built from, turned by minus
\* the rotation of that component, with X negated on the bottom side and
\* kept on the top side
C23_PadOffset ==
    IsSome(result) =>
        \A name \in DOMAIN Val(result).footprints :
            LET first == FirstOfName(name)
                pads == Val(first.footprint).pads
            IN /\ Len(Val(result).footprints[name].pads) = Len(pads)
               /\ \A k \in 1..Len(pads) :
                     Val(result).footprints[name].pads[k].offset =
                        ExpectedOffset(pads[k].pos.x - first.pos.x,
                                       pads[k].pos.y - first.pos.y,
                                       first.rotation, first.side)

\* a component at (1, 2) on the bottom side, turned by 90 degrees, with a
\* pad at (2, -3): the offset is (5, -1)
C23_Witness ==
    /\ IsSome(result)
    /\ model.components = <<Placed("R9", "R0603", Point(10000, 20000), 90, "BOTTOM",
                                   Point(20000, -30000))>>
    /\ Val(result).footprints["R0603"].pads[1].offset = <<50000, -10000>>

\* the editor layers of the sided layer types: <<top side, bottom side>>
SidedNames(layer_type) ==
    CASE layer_type = "SOLDER_MASK" -> <<"F.Mask", "B.Mask">>
      [] layer_type = "SILK_SCREEN" -> <<"F.SilkS", "B.SilkS">>
      [] layer_type = "SOLDER_PASTE" -> <<"F.Paste", "B.Paste">>
      [] layer_type = "COMPONENT" -> <<"F.Fab", "B.Fab">>

\* C24: a layer of type solder mask, silk screen, solder paste or component
\* has the top-side editor layer exactly when its ODB name, in lower case,
\* contains top, front or comp, and the bottom-side one otherwise; the rule
\* is the same for the four types
C24_SideByName ==
    Parsed =>
        \A j \in 1..Len(model.layers) :
            LET l == model.layers[j]
                named_top == \E sub \in {"top", "front", "comp"} :
                                Contains(Lower(l.odb_name), sub)
            IN l.layer_type \in {"SOLDER_MASK", "SILK_SCREEN", "SOLDER_PASTE", "COMPONENT"}
                  => l.kicad_name = SidedNames(l.layer_type)[IF named_top THEN 1 ELSE 2]

\* the calls of the log between the calls i and j
CallsBetween(i, j) == {issued[q].op : q \in (i + 1)..(j - 1)}

\* the value of the counter before the call i of the log
CounterBefore(i) == IF i = 1 THEN 0 ELSE issued[i - 1].counter

\* C25: no runtime entry point resets the identifier counter: parse_odb
\* leaves the counter as it found it, and two identifiers issued without a
\* name, with a parse and no reset_uuid_counter call of the caller between
\* them, differ
C25_NoRuntimeReset ==
    /\ \A i \in 1..Len(issued) :
          issued[i].op = "parse_odb" => issued[i].counter = CounterBefore(i)
    /\ \A i, j \in 1..Len(issued) :
          (/\ i < j
           /\ issued[i].op = "make_uuid" /\ issued[i].name = ""
           /\ issued[j].op = "make_uuid" /\ issued[j].name = ""
           /\ "parse_odb" \in CallsBetween(i, j)
           /\ "reset" \notin CallsBetween(i, j))
              => issued[i].id # issued[j].id

\* the calls without a name among the calls 1..i of the log that follow the
\* last reset of the counter, a reset being reset_uuid_counter or parse_odb
NamelessSinceReset(i) ==
    {q \in 1..i :
        /\ issued[q].op = "make_uuid" /\ issued[q].name = ""
        /\ \A r \in q..i : issued[r].op = "make_uuid"}

\* C26: a call of make_uuid with a name leaves the counter unchanged and
\* returns what every other call with that name returns; a call without a
\* name increases the counter by one, the counter then being the number of
\* nameless calls since the last reset, and two nameless calls return the
\* same identifier exactly when their counter values are equal: never
\* without a reset between them, always for the k-th call after a reset
C26_MakeUuid ==
    /\ \A i \in 1..Len(issued) :
          issued[i].op = "make_uuid" =>
              IF issued[i].name # ""
              THEN issued[i].counter = CounterBefore(i)
              ELSE /\ issued[i].counter = CounterBefore(i) + 1
                   /\ issued[i].counter = Cardinality(NamelessSinceReset(i))
    /\ \A i, j \in 1..Len(issued) :
          (issued[i].op = "make_uuid" /\ issued[j].op = "make_uuid") =>
              /\ (issued[i].name # "" /\ issued[i].name = issued[j].name)
                    => issued[i].id = issued[j].id
              /\ (issued[i].name = "" /\ issued[j].name = "")
                    => (issued[i].id = issued[j].id <=> issued[i].counter = issued[j].counter)
    /\ counter = IF issued = <<>> THEN 0 ELSE issued[Len(issued)].counter

\* two nameless calls and then a named one: the counter is 2 and the first
\* two identifiers differ
C26_Witness ==
    /\ Len(issued) = 3
    /\ issued[1].op = "make_uuid" /\ issued[1].name = ""
    /\ issued[2].op = "make_uuid" /\ issued[2].name = ""
    /\ issued[3].op = "make_uuid" /\ issued[3].name = "test-name"
    /\ issued[1].id # issued[2].id
    /\ counter = 2

\* the last OB, OS, OC or OE record before line i of a profile, 0 if none
LastMark(pr, i) ==
    LET before == {j \in 1..(i - 1) : pr[j].k \in {"OB", "OS", "OC", "OE"}}
    IN IF before = {} THEN 0 ELSE CHOOSE j \in before : \A q \in before : q <= j

\* a contour point exists when line i is read
HasPoint(pr, i) == LastMark(pr, i) # 0 /\ pr[LastMark(pr, i)].k # "OE"

\* the record that gave the first point of the contour that the OE of line i
\* ends: the last OB since the previous OE, or the first record after that OE
FirstMark(pr, i) ==
    LET since == {j \in 1..(i - 1) :
                     /\ pr[j].k \in {"OB", "OS", "OC"}
                     /\ \A q \in j..(i - 1) : pr[q].k # "OE"}
        begins == {j \in since : pr[j].k = "OB"}
    IN IF begins # {} THEN CHOOSE j \in begins : \A q \in begins : q <= j
       ELSE CHOOSE j \in since : \A q \in since : j <= q

\* what line i of a profile appends to the outline: <<type, from, to>> with
\* from and to the lines that give the two points, or nothing
Appended(pr, i) ==
    CASE pr[i].k \in {"OS", "OC"} /\ HasPoint(pr, i) ->
            <<[item_type |-> IF pr[i].k = "OS" THEN "line" ELSE "arc",
               from |-> LastMark(pr, i), to |-> i]>>
      [] pr[i].k = "OE" /\ HasPoint(pr, i) /\ FirstMark(pr, i) # LastMark(pr, i)
            /\ (pr[FirstMark(pr, i)].x # pr[LastMark(pr, i)].x
                   \/ pr[FirstMark(pr, i)].y # pr[LastMark(pr, i)].y) ->
            <<[item_type |-> "line", from |-> LastMark(pr, i), to |-> FirstMark(pr, i)]>>
      [] OTHER -> <<>>

\* C27: every item of model.outline is on Edge.Cuts with the width 0.05; an
\* OS or OC record read while a contour point exists appends one item, a line
\* or an arc, from the point of the record before it (the OB point for the
\* first) to its own point, so that the items of a contour form a chain; an
\* OS or OC record read while no contour point exists appends nothing
C27_OutlineChain ==
    (Parsed /\ IsSome(StepDir.profile) /\ Len(Val(StepDir.profile)) > 0) =>
        LET pr == Val(StepDir.profile)
            pt(i) == Point(convert_to_mm(parse_float(pr[i].x), units),
                           negate_y(convert_to_mm(parse_float(pr[i].y), units)))
            expected == Flatten([i \in 1..Len(pr) |-> Appended(pr, i)])
        IN /\ Len(model.outline) = Len(expected)
           /\ \A n \in 1..Len(model.outline) :
                 /\ model.outline[n].layer = "Edge.Cuts"
                 /\ model.outline[n].width = EdgeWidth
                 /\ model.outline[n].item_type = expected[n].item_type
                 /\ model.outline[n].start = pt(expected[n].from)
                 /\ model.outline[n].end = pt(expected[n].to)

\* a parsed profile OS, OS, OC: the first record appends nothing, and the
\* arc starts where the line ends
C27_Witness ==
    /\ Parsed
    /\ IsSome(StepDir.profile)
    /\ Len(Val(StepDir.profile)) = 3
    /\ Val(StepDir.profile)[1].k = "OS"
    /\ Val(StepDir.profile)[2].k = "OS"
    /\ Val(StepDir.profile)[3].k = "OC"
    /\ Len(model.outline) = 2
    /\ model.outline[2].item_type = "arc"
    /\ model.outline[2].start = model.outline[1].end

\* the outlines expected of the zones of layer cl: for each SE that ends a
\* surface, the points of the OB, OS and OC records read since the S P that
\* opened it, when there is at least one
ExpectedZoneOutlines(cl) ==
    LET fl == FeaturesOf(cl)
        pt(i) == Point(convert_to_mm(parse_float(fl[i].xs), units),
                       negate_y(convert_to_mm(parse_float(fl[i].ys), units)))
        isPoint(i) == fl[i].k \in {"OB", "OS", "OC"}
        ends(i) ==
            /\ fl[i].k = "SE"
            /\ Opener(fl, i) # 0
            /\ fl[Opener(fl, i)].k = "S P"
            /\ \E q \in (Opener(fl, i) + 1)..(i - 1) : isPoint(q)
        at == SelectSeq([i \in 1..Len(fl) |-> i], ends)
        points(i) == SelectSeq([q \in 1..(i - 1 - Opener(fl, i)) |-> Opener(fl, i) + q],
                               isPoint)
    IN [n \in 1..Len(at) |-> [q \in 1..Len(points(at[n])) |-> pt(points(at[n])[q])]]

\* the outlines of the zones of the model that lie on layer cl
ZoneOutlinesOn(cl) ==
    LET on(z) == z.layer = cl.kicad_name
        sel == SelectSeq(model.zones, on)
    IN [n \in 1..Len(sel) |-> sel[n].polygons[1].outline]

\* C28: a surface opened by S P and never closed by SE gives no zone, and its
\* points are in no zone of a later surface, because each S P starts from an
\* empty list: the zones of a copper layer are those of the surfaces that an
\* SE ends, each with the points read since its own S P
C28_SurfaceRestart ==
    Parsed =>
        \A j \in 1..Len(model.layers) :
            IsCopper(model.layers[j]) =>
                ZoneOutlinesOn(model.layers[j]) = ExpectedZoneOutlines(model.layers[j])

\* a parsed layer top whose file holds S P, OB 1 1, S P, OS 3 3, SE: the one
\* zone of the layer has the single point (3, -3)
C28_Witness ==
    /\ Parsed
    /\ Len(model.layers) > 0
    /\ IsSome(step_name)
    /\ FeaturesOf(model.layers[1]) =
           <<Feat("S P", 0, 0, 0, 0, 0), Feat("OB", 1, 1, 0, 0, 0),
             Feat("S P", 0, 0, 0, 0, 0), Feat("OS", 3, 3, 0, 0, 0),
             Feat("SE", 0, 0, 0, 0, 0)>>
    /\ ZoneOutlinesOn(model.layers[1]) =
           <<(<<Point(parse_float(3), negate_y(parse_float(3)))>>)>>

\* the TOP and BOT records of the components files of the step, grouped by
\* the CMP record they follow, in the order of CmpRecords
PinRecords ==
    LET dirs == IF IsSome(StepDir.layers) THEN Val(StepDir.layers) ELSE <<>>
        has(d) == IsSome(d.components)
        of(d) == LET lines == Val(d.components)
                     isCmp(i) == lines[i].k = "CMP"
                     at == SelectSeq([i \in 1..Len(lines) |-> i], isCmp)
                     owned(n, i) == /\ lines[i].k \in {"TOP", "BOT"}
                                    /\ i > at[n]
                                    /\ \A q \in (n + 1)..Len(at) : i < at[q]
                 IN [n \in 1..Len(at) |->
                        LET mine(i) == owned(n, i)
                            pins == SelectSeq([i \in 1..Len(lines) |-> i], mine)
                        IN [q \in 1..Len(pins) |-> lines[pins[q]]]]
        files == SelectSeq(dirs, has)
    IN Flatten([n \in 1..Len(files) |-> of(files[n])])

\* C29: in every unit system the position of a FootprintPad is the pin
\* coordinate of its TOP or BOT record converted to millimetres once, with Y
\* negated once: (to_mm(x, units), -to_mm(y, units))
C29_PinPosition ==
    (Parsed /\ Len(model.components) = Len(PinRecords)) =>
        \A i \in 1..Len(model.components) :
            LET pads == Val(model.components[i].footprint).pads
            IN /\ Len(pads) = Len(PinRecords[i])
               /\ \A q \in 1..Len(pads) :
                     pads[q].pos =
                         Point(convert_to_mm(parse_float(PinRecords[i][q].x), units),
                               negate_y(convert_to_mm(parse_float(PinRecords[i][q].y),
                                                      units)))

\* the references of the CMP records of the components files of the step
CmpReferences ==
    LET dirs == IF IsSome(StepDir.layers) THEN Val(StepDir.layers) ELSE <<>>
        has(d) == IsSome(d.components)
        isCmp(ln) == ln.k = "CMP"
        of(d) == LET cmps == SelectSeq(Val(d.components), isCmp)
                 IN [n \in 1..Len(cmps) |->
                        IF cmps[n].ref # "" THEN cmps[n].ref ELSE cmps[n].name]
        files == SelectSeq(dirs, has)
    IN Flatten([n \in 1..Len(files) |-> of(files[n])])

\* C30: the top pass and the bottom pass of _parse_components never read the
\* same component layer directory, so each CMP record gives exactly one
\* ComponentInstance and references that differ in the input differ in the
\* model, for every set of component layers, a board whose only component
\* layer is the bottom one included
C30_OneInstancePerRecord ==
    (Parsed /\ IsSome(StepDir.layers)) =>
        /\ Len(model.components) = Len(CmpReferences)
        /\ (\A a, b \in 1..Len(CmpReferences) :
               a # b => CmpReferences[a] # CmpReferences[b])
              => \A a, b \in 1..Len(model.components) :
                    a # b => model.components[a].reference # model.components[b].reference

====
